---- MODULE Spec2Model ----
(***************************************************************************)
(* Model of the AI calendar assistant (App component, latest version).     *)
(* The App is a set of asynchronous handlers running on one event loop:    *)
(* every action below is one run-to-completion segment of a handler, from   *)
(* one await to the next.  Firestore and the LLM endpoint are the           *)
(* environment: their answers are chosen nondeterministically.              *)
(***************************************************************************)
EXTENDS Integers, Sequences, FiniteSets, TLC

\* ------------------------------------------------------------------ bounds
MaxRequests == 4      \* LLM requests observed per invocation (caps the loop)
MaxOps == 1           \* operations the user starts in one run, one at a time
MaxConcurrent == 2    \* operations the user starts in one run, overlapping
MaxNew == 2           \* documents one run may create with doc(collection)
DayLen == 4           \* clock slots per calendar day (matcher model)
MaxDay == 4           \* calendar days 1..MaxDay (matcher model)
MaxYears == 1         \* years the grid is paged away from the mount year

\* ------------------------------------------------------- program constants
maxRetries == 3
baseDelay == 1000

NoTime == -1          \* an absent or empty time string
NoDate == -1          \* an absent or empty date string
NoUser == "none"

\* new Date().getFullYear() and new Date().getMonth() when CalendarGrid
\* mounts; the modelled days 1..MaxDay are the days of that month, and
\* every month has MaxDay days
MountYear == 2025
MountMonth == 0
Undef == "undefined"  \* an absent string field

\* ------------------------------------------------------------------- state
VARIABLES
  \* React state of App
  eventInput, events, parsedEvent, isLoading, error,
  db, userId, isAuthReady,
  editingEvent, editFormData,
  optimizationInput, optimizedSuggestions, isOptimizing,
  \* environment: configuration, Firestore, auth, the live listener
  envGeminiKey, envFirebase, opsLimit, authUser, subFailed,
  store, nextId, snapPending,
  \* handler positions and locals
  pcInit,
  pcParse, retries, parseDb, parseEvent,
  pcOpt, retriesOpt,
  pcDel, delId,
  pcUpd, updId, updData,
  pcAcc, accChanges, accIdx,
  \* observation of the current invocation of each handler
  clicks,
  parseRequests, parseDelays, parseAllTransport, parseAfterShape, parseEnd,
  parseAfterSave,
  optRequests, optDelays, optAllTransport, optAfterShape, optEnd,
  accCalls, accSkipped, accEnd, accStore0, accForeign, accApplied,
  persistResult,
  \* inputs and result of the matcher (pure-function specification)
  \* the proactive-suggestion effect: its state, the clock and the timezone
  mockCurrentLocationType, proactiveSuggestion, now, tzOffset,
  \* the day filter effect
  selectedDate, filteredEvents,
  \* React state of CalendarGrid (its selectedDate is gridSelectedDate)
  currentMonth, currentYear, gridSelectedDate

cfgVars == <<envGeminiKey, envFirebase, opsLimit>>
authVars == <<authUser, subFailed>>
storeVars == <<store, nextId, snapPending, accForeign>>
initVars == <<pcInit>>
parseVars == <<pcParse, retries, parseDb, parseEvent>>
optVars == <<pcOpt, retriesOpt>>
delVars == <<pcDel, delId>>
updVars == <<pcUpd, updId, updData>>
accVars == <<pcAcc, accChanges, accIdx>>
parseObs == <<parseRequests, parseDelays, parseAllTransport, parseAfterShape,
              parseEnd, parseAfterSave>>
optObs == <<optRequests, optDelays, optAllTransport, optAfterShape, optEnd>>
accObs == <<accCalls, accSkipped, accEnd, accStore0, accApplied,
            persistResult>>
gridVars == <<currentMonth, currentYear, gridSelectedDate>>
matchVars == <<mockCurrentLocationType, proactiveSuggestion, now, tzOffset,
               selectedDate, filteredEvents, gridVars>>

vars == <<eventInput, events, parsedEvent, isLoading, error, db, userId,
          isAuthReady, editingEvent, editFormData, optimizationInput,
          optimizedSuggestions, isOptimizing, cfgVars, authVars, storeVars,
          initVars, parseVars, optVars, delVars, updVars, accVars, clicks,
          parseObs, optObs, accObs, matchVars>>

\* -------------------------------------------------------------------- data
\* An event document: the fields Firestore stores (the id is the key).
EventData(t, d, tm, ds, l) ==
  [title |-> t, date |-> d, time |-> tm, description |-> ds, locationType |-> l]

WithId(i, data) ==
  [id |-> i, title |-> data.title, date |-> data.date, time |-> data.time,
   description |-> data.description, locationType |-> data.locationType]

Fields(e) ==
  EventData(e.title, e.date, e.time, e.description, e.locationType)

EvA == EventData("A", 1, 1, "", "gym")
EvB == EventData("B", 1, 2, "note", "office")
EvC == EventData("C", 2, 0, "", "")
EvE == EventData("E", 2, 1, Undef, Undef)
\* eventDetails whose title is the empty string
EvBlank == EventData("", 2, 1, "", "")
EvNone == EventData("", NoDate, NoTime, "", "")

\* Document ids: two documents that may exist at start, then the ids that
\* doc(collection) and Date.now() generate, in generation order.
NewIdNames == <<"n1", "n2", "n3", "n4", "n5">>
AllIds == <<"a", "b">> \o NewIdNames

EmptyStore == [i \in {} |-> EvA]
InitStores == {EmptyStore, [i \in {"a", "b"} |-> IF i = "a" THEN EvA ELSE EvB]}

Some(x) == <<x>>
None == <<>>

\* new Date(`${date}T${time}`).getTime(): the local timestamp of an event
DateTimeKey(e) == e.date * DayLen + e.time

RECURSIVE InsertSorted(_, _)
InsertSorted(e, s) ==
  IF s = <<>> THEN <<e>>
  ELSE IF DateTimeKey(e) - DateTimeKey(Head(s)) < 0 THEN <<e>> \o s
  ELSE <<Head(s)>> \o InsertSorted(e, Tail(s))

\* Array.prototype.sort with the (date, time) comparator: a stable sort
RECURSIVE SortByDateTime(_)
SortByDateTime(s) ==
  IF s = <<>> THEN <<>>
  ELSE InsertSorted(s[Len(s)], SortByDateTime(SubSeq(s, 1, Len(s) - 1)))

\* snapshot.docs.map(doc => ({id: doc.id, ...doc.data()})), in id order
RECURSIVE DocsFrom(_, _)
DocsFrom(st, k) ==
  IF k > Len(AllIds) THEN <<>>
  ELSE (IF AllIds[k] \in DOMAIN st
          THEN <<WithId(AllIds[k], st[AllIds[k]])>> ELSE <<>>)
       \o DocsFrom(st, k + 1)

FetchedEvents(st) == SortByDateTime(DocsFrom(st, 1))

\* ---------------------------------------------------------- initialization
InitApp ==
  /\ eventInput = "" /\ events = <<>> /\ parsedEvent = None
  /\ isLoading = FALSE /\ error = ""
  /\ db = FALSE /\ userId = NoUser /\ isAuthReady = FALSE
  /\ editingEvent = None /\ editFormData = EvNone
  /\ optimizationInput = "" /\ optimizedSuggestions = None
  /\ isOptimizing = FALSE

InitHandlers ==
  /\ pcInit = "start"
  /\ pcParse = "idle" /\ retries = 0 /\ parseDb = FALSE
  /\ parseEvent = WithId("", EvNone)
  /\ pcOpt = "idle" /\ retriesOpt = 0
  /\ pcDel = "idle" /\ delId = ""
  /\ pcUpd = "idle" /\ updId = "" /\ updData = EvNone
  /\ pcAcc = "idle" /\ accChanges = <<>> /\ accIdx = 0

\* The handlers at rest once the mount effect and the auth callback are over
InitHandlersDone ==
  /\ pcInit = "done"
  /\ pcParse = "idle" /\ retries = 0 /\ parseDb = FALSE
  /\ parseEvent = WithId("", EvNone)
  /\ pcOpt = "idle" /\ retriesOpt = 0
  /\ pcDel = "idle" /\ delId = ""
  /\ pcUpd = "idle" /\ updId = "" /\ updData = EvNone
  /\ pcAcc = "idle" /\ accChanges = <<>> /\ accIdx = 0

InitObs ==
  /\ clicks = 0
  /\ parseRequests = 0 /\ parseDelays = <<>> /\ parseAllTransport = TRUE
  /\ parseAfterShape = FALSE /\ parseEnd = "none"
  /\ parseAfterSave = FALSE
  /\ optRequests = 0 /\ optDelays = <<>> /\ optAllTransport = TRUE
  /\ optAfterShape = FALSE /\ optEnd = "none"
  /\ accCalls = <<>> /\ accSkipped = {} /\ accEnd = "none"
  /\ accStore0 = EmptyStore /\ accForeign = FALSE
  /\ accApplied = <<>> /\ persistResult = "none"

\* useState(new Date().getMonth()), useState(new Date().getFullYear()),
\* useState(new Date()) of CalendarGrid
InitGrid ==
  /\ currentMonth = MountMonth /\ currentYear = MountYear
  /\ gridSelectedDate =
       [year |-> MountYear, month |-> MountMonth, day |-> now.day]

InitMatch ==
  /\ mockCurrentLocationType = "" /\ proactiveSuggestion = None
  /\ now = [day |-> 1, slot |-> 0] /\ tzOffset = 0
  /\ selectedDate = now.day
  /\ InitGrid

\* The state after construction, before the mount effect has run
InitCore ==
  /\ InitApp /\ InitHandlers /\ InitObs /\ InitMatch
  /\ filteredEvents = <<>>
  /\ envGeminiKey \in BOOLEAN
  /\ envFirebase \in BOOLEAN
  /\ store \in InitStores
  /\ nextId = 1
  /\ authUser \in {NoUser, "u1"}
  /\ snapPending = TRUE
  /\ subFailed = FALSE

Init == InitCore /\ opsLimit = MaxConcurrent

\* The same, for runs in which the user starts at most MaxOps operations
InitSequential == InitCore /\ opsLimit = MaxOps

\* An initialization that keeps quiet about a missing configuration
InitializeFirebaseSilent(initThrows) ==
  /\ pcInit = "start"
  /\ IF ~envFirebase \/ initThrows
       THEN /\ isAuthReady' = TRUE
            /\ pcInit' = "done"
            /\ UNCHANGED <<db, error>>
       ELSE /\ db' = TRUE
            /\ pcInit' = "listening"
            /\ UNCHANGED <<error, isAuthReady>>
  /\ UNCHANGED <<eventInput, events, parsedEvent, isLoading, userId,
                 editingEvent, editFormData, optimizationInput,
                 optimizedSuggestions, isOptimizing>>
  /\ UNCHANGED <<cfgVars, authVars, storeVars, parseVars, optVars, delVars,
                 updVars, accVars, clicks, parseObs, optObs, accObs, matchVars>>

\* useEffect(initializeFirebase): the synchronous part, up to registering
\* the auth listener.  initThrows: initializeApp / getFirestore / getAuth
\* throws.
InitializeFirebase(initThrows) ==
  /\ pcInit = "start"
  /\ IF ~envFirebase
       THEN /\ error' = "fbConfigMissing"
            /\ isAuthReady' = TRUE
            /\ pcInit' = "done"
            /\ UNCHANGED db
       ELSE IF initThrows
       THEN /\ error' = "fbInitFailed"
            /\ isAuthReady' = TRUE
            /\ pcInit' = "done"
            /\ UNCHANGED db
       ELSE /\ db' = TRUE
            /\ pcInit' = "listening"
            /\ UNCHANGED <<error, isAuthReady>>
  /\ UNCHANGED <<eventInput, events, parsedEvent, isLoading, userId,
                 editingEvent, editFormData, optimizationInput,
                 optimizedSuggestions, isOptimizing>>
  /\ UNCHANGED <<cfgVars, authVars, storeVars, parseVars, optVars, delVars,
                 updVars, accVars, clicks, parseObs, optObs, accObs, matchVars>>

\* The onAuthStateChanged callback, up to its await (or to its end).
AuthStateChanged ==
  /\ pcInit \in {"listening", "notify"}
  /\ IF authUser # NoUser
       THEN /\ userId' = authUser
            /\ isAuthReady' = TRUE
            /\ pcInit' = "done"
       ELSE /\ pcInit' = "signin"
            /\ UNCHANGED <<userId, isAuthReady>>
  /\ UNCHANGED <<eventInput, events, parsedEvent, isLoading, error, db,
                 editingEvent, editFormData, optimizationInput,
                 optimizedSuggestions, isOptimizing>>
  /\ UNCHANGED <<cfgVars, authVars, storeVars, parseVars, optVars, delVars,
                 updVars, accVars, clicks, parseObs, optObs, accObs, matchVars>>

\* signInAnonymously settles.  On success the callback continues to
\* setIsAuthReady(true) and the listener is notified of the new user; on
\* failure the rejection leaves the callback.
SignInSettles(ok) ==
  /\ pcInit = "signin"
  /\ IF ok
       THEN /\ authUser' = "u1"
            /\ isAuthReady' = TRUE
            /\ pcInit' = "notify"
       ELSE /\ pcInit' = "done"
            /\ UNCHANGED <<authUser, isAuthReady>>
  /\ UNCHANGED <<eventInput, events, parsedEvent, isLoading, error, db, userId,
                 editingEvent, editFormData, optimizationInput,
                 optimizedSuggestions, isOptimizing>>
  /\ UNCHANGED <<cfgVars, subFailed, storeVars, parseVars, optVars, delVars,
                 updVars, accVars, clicks, parseObs, optObs, accObs, matchVars>>

\* ------------------------------------------------- proactive suggestions
\* JavaScript truthiness of a string field and of a date or time field
Truthy(x) == x \notin {"", Undef}
OrEmpty(x) == IF Truthy(x) THEN x ELSE ""

\* A comparison that keeps the case of the letters
LowerAsIs(s) == s

\* String.prototype.toLowerCase on the labels that occur
Lower(s) ==
  CASE s = "Gym" -> "gym"
    [] s = "GYM" -> "gym"
    [] s = "Office" -> "office"
    [] OTHER -> s

\* new Date(event.date) is midnight UTC of that date; setHours(0, 0, 0, 0)
\* moves it to the local midnight before it: the local day of that instant.
\* tz is the local clock minus UTC, in slots.
EventLocalDay(e, tz) == (e.date * DayLen + tz) \div DayLen

\* A filter that lets the present slot through
IsMatchAtOrAfter(e, label, clock, tz) ==
  LET locationMatches ==
        Truthy(e.locationType) /\ Lower(e.locationType) = Lower(label)
  IN IF EventLocalDay(e, tz) = clock.day
       THEN locationMatches /\ e.time >= clock.slot
       ELSE locationMatches /\ EventLocalDay(e, tz) > clock.day

\* The filter callback of matchingUpcomingEvents
IsMatch(e, label, clock, tz) ==
  LET locationMatches ==
        Truthy(e.locationType) /\ Lower(e.locationType) = Lower(label)
      isUpcoming == EventLocalDay(e, tz) > clock.day
  IN IF EventLocalDay(e, tz) = clock.day
       THEN locationMatches /\ e.time > clock.slot
       ELSE locationMatches /\ isUpcoming

MatchingUpcomingEvents(evs, label, clock, tz) ==
  SortByDateTime(SelectSeq(evs, LAMBDA e : IsMatch(e, label, clock, tz)))

\* What the effect leaves in proactiveSuggestion (its eventDetails)
Suggested(evs, label, clock, tz) ==
  IF ~Truthy(label) \/ Len(evs) = 0 THEN None
  ELSE LET m == MatchingUpcomingEvents(evs, label, clock, tz)
       IN IF Len(m) > 0 THEN Some(m[1]) ELSE None

\* useEffect(..., [mockCurrentLocationType, events]) after a render in which
\* the label is label and the list is evs
SuggestionEffect(label, evs) ==
  /\ proactiveSuggestion' = Suggested(evs, label, now, tzOffset)
  /\ UNCHANGED <<now, tzOffset, gridVars>>

\* The filter callback of the day filter: the event's local day, found as
\* in the matcher, against the local day of selectedDate
DayFilter(evs, sel, tz) ==
  SelectSeq(evs, LAMBDA e : EventLocalDay(e, tz) = sel)

\* useEffect(..., [events, selectedDate]) after a render in which the list
\* is evs and the selected day is sel
DayFilterEffect(evs, sel) ==
  filteredEvents' = DayFilter(evs, sel, tzOffset)

\* The selected date on the day scale of the model: day d of the month
\* shown at mount is d
DayIndex(y, m, d) == ((y - MountYear) * 12 + (m - MountMonth)) * MaxDay + d

\* handleDayClick of CalendarGrid: setSelectedDate(new Date(currentYear,
\* currentMonth, day)), then the effect that hands the normalized date to
\* onSelectDate (App's setSelectedDate), then App's day filter effect
HandleDayClick(day) ==
  /\ gridSelectedDate' =
       [year |-> currentYear, month |-> currentMonth, day |-> day]
  /\ gridSelectedDate' # gridSelectedDate
  /\ selectedDate' = DayIndex(currentYear, currentMonth, day)
  /\ DayFilterEffect(events, selectedDate')
  /\ UNCHANGED <<currentMonth, currentYear>>
  /\ UNCHANGED <<mockCurrentLocationType, proactiveSuggestion, now, tzOffset>>
  /\ UNCHANGED <<eventInput, events, parsedEvent, isLoading, error, db, userId,
                 isAuthReady, editingEvent, editFormData, optimizationInput,
                 optimizedSuggestions, isOptimizing>>
  /\ UNCHANGED <<cfgVars, authVars, storeVars, initVars, parseVars, optVars,
                 delVars, updVars, accVars, clicks, parseObs, optObs, accObs>>

\* onSelectDate of CalendarGrid: a click on day d of the month shown at
\* mount, and the effect it triggers
SelectDate(d) ==
  /\ currentMonth = MountMonth /\ currentYear = MountYear
  /\ HandleDayClick(d)

\* A next-month button that forgets the year at the end of December
GoToNextMonthNoCarry ==
  /\ currentMonth' = IF currentMonth = 11 THEN 0 ELSE currentMonth + 1
  /\ UNCHANGED <<currentYear, gridSelectedDate>>
  /\ UNCHANGED <<mockCurrentLocationType, proactiveSuggestion, now, tzOffset,
                 selectedDate, filteredEvents>>
  /\ UNCHANGED <<eventInput, events, parsedEvent, isLoading, error, db, userId,
                 isAuthReady, editingEvent, editFormData, optimizationInput,
                 optimizedSuggestions, isOptimizing>>
  /\ UNCHANGED <<cfgVars, authVars, storeVars, initVars, parseVars, optVars,
                 delVars, updVars, accVars, clicks, parseObs, optObs, accObs>>

\* goToPreviousMonth of CalendarGrid
GoToPreviousMonth ==
  /\ IF currentMonth = 0
       THEN /\ currentYear > MountYear - MaxYears
            /\ currentMonth' = 11
            /\ currentYear' = currentYear - 1
       ELSE /\ currentMonth' = currentMonth - 1
            /\ UNCHANGED currentYear
  /\ UNCHANGED gridSelectedDate
  /\ UNCHANGED <<mockCurrentLocationType, proactiveSuggestion, now, tzOffset,
                 selectedDate, filteredEvents>>
  /\ UNCHANGED <<eventInput, events, parsedEvent, isLoading, error, db, userId,
                 isAuthReady, editingEvent, editFormData, optimizationInput,
                 optimizedSuggestions, isOptimizing>>
  /\ UNCHANGED <<cfgVars, authVars, storeVars, initVars, parseVars, optVars,
                 delVars, updVars, accVars, clicks, parseObs, optObs, accObs>>

\* goToNextMonth of CalendarGrid
GoToNextMonth ==
  /\ IF currentMonth = 11
       THEN /\ currentYear < MountYear + MaxYears
            /\ currentMonth' = 0
            /\ currentYear' = currentYear + 1
       ELSE /\ currentMonth' = currentMonth + 1
            /\ UNCHANGED currentYear
  /\ UNCHANGED gridSelectedDate
  /\ UNCHANGED <<mockCurrentLocationType, proactiveSuggestion, now, tzOffset,
                 selectedDate, filteredEvents>>
  /\ UNCHANGED <<eventInput, events, parsedEvent, isLoading, error, db, userId,
                 isAuthReady, editingEvent, editFormData, optimizationInput,
                 optimizedSuggestions, isOptimizing>>
  /\ UNCHANGED <<cfgVars, authVars, storeVars, initVars, parseVars, optVars,
                 delVars, updVars, accVars, clicks, parseObs, optObs, accObs>>

LocationLabels == {"", "gym", "GYM", "Office"}

\* onChange of the location input, and the effect its render triggers
SetMockCurrentLocationType(label) ==
  /\ label # mockCurrentLocationType
  /\ mockCurrentLocationType' = label
  /\ SuggestionEffect(label, events)
  /\ UNCHANGED <<selectedDate, filteredEvents>>
  /\ UNCHANGED <<eventInput, events, parsedEvent, isLoading, error, db, userId,
                 isAuthReady, editingEvent, editFormData, optimizationInput,
                 optimizedSuggestions, isOptimizing>>
  /\ UNCHANGED <<cfgVars, authVars, storeVars, initVars, parseVars, optVars,
                 delVars, updVars, accVars, clicks, parseObs, optObs, accObs>>

\* Time passes: the clock moves to the next slot.  Neither dependency of the
\* proactive-suggestion effect changes, so the effect does not run and
\* proactiveSuggestion stays as the last run left it.
ClockTick ==
  /\ now.day < MaxDay \/ now.slot < DayLen - 1
  /\ now' = IF now.slot < DayLen - 1
              THEN [now EXCEPT !.slot = now.slot + 1]
              ELSE [day |-> now.day + 1, slot |-> 0]
  /\ UNCHANGED <<mockCurrentLocationType, proactiveSuggestion, tzOffset,
                 selectedDate, filteredEvents, gridVars>>
  /\ UNCHANGED <<eventInput, events, parsedEvent, isLoading, error, db, userId,
                 isAuthReady, editingEvent, editFormData, optimizationInput,
                 optimizedSuggestions, isOptimizing>>
  /\ UNCHANGED <<cfgVars, authVars, storeVars, initVars, parseVars, optVars,
                 delVars, updVars, accVars, clicks, parseObs, optObs, accObs>>


\* ------------------------------------------------------------ handleParseEvent
\* String.prototype.trim on the inputs the model draws
Trim(s) == IF s = " " THEN "" ELSE s

\* What a fetch can come to: it rejects, the status is not ok, the result
\* has no candidate part, the part's text is no JSON, or it is JSON.
TransportOutcomes == {"network", "status"}
FetchOutcomes == TransportOutcomes \cup {"empty", "badjson", "json"}

\* JSON objects the LLM may return for an event
ParsedResponses ==
  {EventData("C", 2, 0, Undef, Undef), EventData(Undef, 2, 0, "", "gym")}

\* The same, with a second complete event dated before the first
LocalParsedResponses ==
  ParsedResponses \cup {EventData("A", 1, 1, "", "gym")}

\* if (parsed.title && parsed.date && parsed.time)
ParsedComplete(parsed) ==
  Truthy(parsed.title) /\ parsed.date # NoDate /\ parsed.time # NoTime

\* finalParsedEvent; the year inference rewrites only MM-DD and YY-MM-DD
\* strings, the model draws dates that are already complete
FinalParsedEvent(parsed) ==
  EventData(parsed.title, parsed.date, parsed.time,
            OrEmpty(parsed.description), OrEmpty(parsed.locationType))

\* Is the settled fetch a response-shape error of handleParseEvent?
ParseShapeCase(outcome, parsed) ==
  outcome \in {"empty", "badjson"}
    \/ (outcome = "json" /\ ~ParsedComplete(parsed))

ParseShapeError(outcome) ==
  CASE outcome = "empty" -> "llmMalformed"
    [] outcome = "badjson" -> "llmBadJson"
    [] outcome = "json" -> "llmIncomplete"

\* A backoff that doubles once too often
DelayOffByOne(r) == baseDelay * 2 ^ r

\* baseDelay * Math.pow(2, retries - 1)
Delay(r) == baseDelay * 2 ^ (r - 1)

\* A parse click that leaves the loading flag set when the key is missing
ParseStartKeepsLoading ==
  /\ pcParse = "idle"
  /\ ~isLoading /\ isAuthReady
  /\ parsedEvent' = None
  /\ IF Trim(eventInput) = ""
       THEN /\ error' = "enterEvent"
            /\ UNCHANGED <<isLoading, parseVars, parseObs, clicks>>
       ELSE IF ~envGeminiKey
       THEN /\ error' = "geminiMissing"
            /\ isLoading' = TRUE
            /\ UNCHANGED <<parseVars, parseObs, clicks>>
       ELSE /\ clicks < opsLimit
            /\ clicks' = clicks + 1
            /\ error' = ""
            /\ isLoading' = TRUE
            /\ retries' = 0
            /\ parseDb' = (db /\ userId # NoUser)
            /\ pcParse' = "fetch"
            /\ parseRequests' = 1
            /\ parseDelays' = <<>>
            /\ parseAllTransport' = TRUE
            /\ parseAfterShape' = FALSE
            /\ parseAfterSave' = FALSE
            /\ parseEnd' = "none"
            /\ UNCHANGED parseEvent
  /\ UNCHANGED <<eventInput, events, db, userId, isAuthReady, editingEvent,
                 editFormData, optimizationInput, optimizedSuggestions,
                 isOptimizing>>
  /\ UNCHANGED <<cfgVars, authVars, storeVars, initVars, optVars, delVars,
                 updVars, accVars, optObs, accObs, matchVars>>

\* The click on "Parse & Add Event", up to the first await fetch(...)
ParseStart ==
  /\ pcParse = "idle"
  /\ ~isLoading /\ isAuthReady
  /\ parsedEvent' = None
  /\ IF Trim(eventInput) = ""
       THEN /\ error' = "enterEvent"
            /\ UNCHANGED <<isLoading, parseVars, parseObs, clicks>>
       ELSE IF ~envGeminiKey
       THEN /\ error' = "geminiMissing"
            /\ isLoading' = FALSE
            /\ UNCHANGED <<parseVars, parseObs, clicks>>
       ELSE /\ clicks < opsLimit
            /\ clicks' = clicks + 1
            /\ error' = ""
            /\ isLoading' = TRUE
            /\ retries' = 0
            /\ parseDb' = (db /\ userId # NoUser)
            /\ pcParse' = "fetch"
            /\ parseRequests' = 1
            /\ parseDelays' = <<>>
            /\ parseAllTransport' = TRUE
            /\ parseAfterShape' = FALSE
            /\ parseAfterSave' = FALSE
            /\ parseEnd' = "none"
            /\ UNCHANGED parseEvent
  /\ UNCHANGED <<eventInput, events, db, userId, isAuthReady, editingEvent,
                 editFormData, optimizationInput, optimizedSuggestions,
                 isOptimizing>>
  /\ UNCHANGED <<cfgVars, authVars, storeVars, initVars, optVars, delVars,
                 updVars, accVars, optObs, accObs, matchVars>>

\* catch (fetchError) { retries++; ... } finally { setIsLoading(false) },
\* then the loop test.  The finally block runs only after the backoff wait.
ParseCatch ==
  IF retries + 1 < maxRetries
    THEN /\ retries' = retries + 1
         /\ parseDelays' = Append(parseDelays, Delay(retries + 1))
         /\ pcParse' = "wait"
         /\ UNCHANGED <<error, isLoading, parseEnd>>
    ELSE /\ retries' = 0
         /\ error' = "llmFailed"
         /\ isLoading' = FALSE
         /\ pcParse' = "idle"
         /\ parseEnd' = "exhausted"
         /\ UNCHANGED parseDelays

\* The awaited fetch settles: the rest of one loop iteration.
ParseFetchSettles(outcome, parsed) ==
  /\ pcParse = "fetch"
  /\ \/ /\ outcome \in TransportOutcomes
        /\ ParseCatch
        /\ UNCHANGED <<parsedEvent, events, eventInput, nextId, parseDb,
                       parseEvent, parseRequests, parseAllTransport,
                       parseAfterShape>>
     \/ /\ ParseShapeCase(outcome, parsed)
        /\ error' = ParseShapeError(outcome)
        /\ isLoading' = FALSE
        /\ parseAllTransport' = FALSE
        \* no break and no retries++: the loop calls fetch again at once
        /\ parseRequests < MaxRequests
        /\ parseRequests' = parseRequests + 1
        /\ parseAfterShape' = TRUE
        /\ pcParse' = "fetch"
        /\ UNCHANGED <<parsedEvent, events, eventInput, nextId, retries,
                       parseDb, parseEvent, parseDelays, parseEnd>>
     \/ /\ outcome = "json" /\ ParsedComplete(parsed)
        /\ parsedEvent' = Some(FinalParsedEvent(parsed))
        /\ parseAllTransport' = FALSE
        /\ nextId <= MaxNew
        /\ nextId' = nextId + 1
        /\ IF parseDb
             THEN /\ pcParse' = "save"
                  /\ parseEvent' = WithId(NewIdNames[nextId], FinalParsedEvent(parsed))
                  /\ UNCHANGED <<events, eventInput, isLoading, parseEnd,
                                 retries>>
             ELSE /\ events' = Append(events, WithId(NewIdNames[nextId],
                                                 FinalParsedEvent(parsed)))
                  /\ eventInput' = ""
                  /\ isLoading' = FALSE
                  /\ pcParse' = "idle"
                  /\ retries' = 0
                  /\ parseEnd' = "local"
                  /\ parseEvent' = WithId(NewIdNames[nextId],
                                          FinalParsedEvent(parsed))
        /\ UNCHANGED <<error, parseDb, parseRequests, parseDelays,
                       parseAfterShape>>
  /\ UNCHANGED <<db, userId, isAuthReady, editingEvent, editFormData,
                 optimizationInput, optimizedSuggestions, isOptimizing>>
  /\ SuggestionEffect(mockCurrentLocationType, events')
  /\ DayFilterEffect(events', selectedDate)
  /\ UNCHANGED <<mockCurrentLocationType, selectedDate>>
  /\ UNCHANGED <<cfgVars, authVars, store, snapPending, accForeign>>
  /\ UNCHANGED <<initVars, optVars, delVars, updVars, accVars, clicks, optObs,
                 accObs, parseAfterSave>>

\* The backoff timer fires: finally { setIsLoading(false) }, the loop test,
\* and the next fetch.
ParseWaitDone ==
  /\ pcParse = "wait"
  /\ isLoading' = FALSE
  /\ parseRequests < MaxRequests
  /\ parseRequests' = parseRequests + 1
  /\ pcParse' = "fetch"
  /\ UNCHANGED <<eventInput, events, parsedEvent, error, db, userId,
                 isAuthReady, editingEvent, editFormData, optimizationInput,
                 optimizedSuggestions, isOptimizing>>
  /\ UNCHANGED <<retries, parseDb, parseEvent, parseDelays, parseAllTransport,
                 parseAfterShape, parseEnd, parseAfterSave>>
  /\ UNCHANGED <<cfgVars, authVars, storeVars, initVars, optVars, delVars,
                 updVars, accVars, clicks, optObs, accObs, matchVars>>

\* await setDoc(doc(eventsCollectionRef), finalParsedEvent) settles.  The
\* await stands inside the try block whose catch (parseError) handles
\* JSON.parse: a rejected setDoc is caught there, the JSON error message is
\* set, retries stays as it is, finally runs and the loop calls fetch again.
ParseSaveSettles(ok) ==
  /\ pcParse = "save"
  /\ IF ok
       THEN /\ store' = (parseEvent.id :> Fields(parseEvent)) @@ store
            /\ snapPending' = TRUE
            /\ accForeign' = TRUE
            /\ eventInput' = ""
            /\ pcParse' = "idle"
            /\ retries' = 0
            /\ parseEnd' = "saved"
            /\ UNCHANGED <<error, parseRequests, parseAfterSave>>
       ELSE /\ error' = "llmBadJson"
            /\ parseRequests < MaxRequests
            /\ parseRequests' = parseRequests + 1
            /\ parseAfterSave' = TRUE
            /\ pcParse' = "fetch"
            /\ UNCHANGED <<store, snapPending, accForeign, eventInput, retries,
                           parseEnd>>
  /\ isLoading' = FALSE
  /\ UNCHANGED <<events, parsedEvent, db, userId, isAuthReady, editingEvent,
                 editFormData, optimizationInput, optimizedSuggestions,
                 isOptimizing>>
  /\ UNCHANGED <<parseDb, parseEvent, parseDelays, parseAllTransport,
                 parseAfterShape, nextId>>
  /\ UNCHANGED <<cfgVars, authVars, initVars, optVars, delVars, updVars,
                 accVars, clicks, optObs, accObs, matchVars>>

\* ------------------------------------------------------ handleOptimizeSchedule
\* A change operation of a suggestion.  eventId "" and newTime NoTime stand
\* for an absent (or empty, falsy) field; hasDetails for eventDetails.
Change(t, i, tm, h, d) ==
  [type |-> t, eventId |-> i, newTime |-> tm, hasDetails |-> h, details |-> d]

DeleteOp(i) == Change("delete", i, NoTime, FALSE, EvNone)
MoveOp(i, tm) == Change("move", i, tm, FALSE, EvNone)
AddOp(d) == Change("add", "", NoTime, TRUE, d)
AddNoDetails == Change("add", "", NoTime, FALSE, EvNone)
UnknownOp == Change("swap", "a", 3, FALSE, EvNone)

\* The change lists the LLM may return
ChangeLists ==
  { <<DeleteOp("a"), MoveOp("b", 3)>>,
    <<AddNoDetails, MoveOp("", 3), AddOp(EvE)>>,
    <<MoveOp("b", NoTime), DeleteOp(""), UnknownOp, DeleteOp("b")>>,
    <<AddOp(EvC), MoveOp("a", 0), UnknownOp>> }

\* The same, with an add whose eventDetails carry an empty title
AcceptedChangeLists == ChangeLists \cup { <<AddOp(EvBlank)>> }

Suggestion(l) == [changes |-> l]

\* parsedSuggestions.suggestions of a JSON response: None when the field
\* is absent or no array, else the array
SuggestionResponses ==
  {None, Some(<<>>)} \cup { Some(<<Suggestion(l)>>) : l \in ChangeLists }

\* Is the settled fetch a response-shape error of handleOptimizeSchedule?
OptShapeCase(outcome, resp) ==
  outcome \in {"empty", "badjson"} \/ (outcome = "json" /\ resp = None)

OptShapeError(outcome) ==
  CASE outcome = "empty" -> "optMalformed"
    [] outcome = "badjson" -> "optBadJson"
    [] outcome = "json" -> "optInvalid"

\* The click on "Optimize Schedule", up to the first await fetch(...)
OptimizeStart ==
  /\ pcOpt = "idle"
  /\ ~isOptimizing /\ isAuthReady
  /\ IF Trim(optimizationInput) = ""
       THEN /\ error' = "optEnter"
            /\ UNCHANGED <<isOptimizing, optimizedSuggestions, optVars,
                           optObs, clicks>>
       ELSE IF ~envGeminiKey
       THEN /\ error' = "optKeyMissing"
            /\ isOptimizing' = FALSE
            /\ optimizedSuggestions' = None
            /\ UNCHANGED <<optVars, optObs, clicks>>
       ELSE /\ clicks < opsLimit
            /\ clicks' = clicks + 1
            /\ error' = ""
            /\ isOptimizing' = TRUE
            /\ optimizedSuggestions' = None
            /\ retriesOpt' = 0
            /\ pcOpt' = "fetch"
            /\ optRequests' = 1
            /\ optDelays' = <<>>
            /\ optAllTransport' = TRUE
            /\ optAfterShape' = FALSE
            /\ optEnd' = "none"
  /\ UNCHANGED <<eventInput, events, parsedEvent, isLoading, db, userId,
                 isAuthReady, editingEvent, editFormData, optimizationInput>>
  /\ UNCHANGED <<cfgVars, authVars, storeVars, initVars, parseVars, delVars,
                 updVars, accVars, parseObs, accObs, matchVars>>

\* catch (fetchError) of the optimization loop, then finally and loop test
OptimizeCatch ==
  IF retriesOpt + 1 < maxRetries
    THEN /\ retriesOpt' = retriesOpt + 1
         /\ optDelays' = Append(optDelays, Delay(retriesOpt + 1))
         /\ pcOpt' = "wait"
         /\ UNCHANGED <<error, isOptimizing, optEnd>>
    ELSE /\ retriesOpt' = 0
         /\ error' = "optFailed"
         /\ isOptimizing' = FALSE
         /\ pcOpt' = "idle"
         /\ optEnd' = "exhausted"
         /\ UNCHANGED optDelays

\* The awaited fetch of the optimization loop settles
OptimizeFetchSettles(outcome, resp) ==
  /\ pcOpt = "fetch"
  /\ \/ /\ outcome \in TransportOutcomes
        /\ OptimizeCatch
        /\ UNCHANGED <<optimizedSuggestions, optimizationInput, optRequests,
                       optAllTransport, optAfterShape>>
     \/ /\ OptShapeCase(outcome, resp)
        /\ error' = OptShapeError(outcome)
        /\ isOptimizing' = FALSE
        /\ optAllTransport' = FALSE
        \* no break and no retries++: the loop calls fetch again at once
        /\ optRequests < MaxRequests
        /\ optRequests' = optRequests + 1
        /\ optAfterShape' = TRUE
        /\ pcOpt' = "fetch"
        /\ UNCHANGED <<optimizedSuggestions, optimizationInput, retriesOpt,
                       optDelays, optEnd>>
     \/ /\ outcome = "json" /\ resp # None
        /\ optimizedSuggestions' = resp
        /\ optimizationInput' = ""
        /\ isOptimizing' = FALSE
        /\ optAllTransport' = FALSE
        /\ pcOpt' = "idle"
        /\ retriesOpt' = 0
        /\ optEnd' = "stored"
        /\ UNCHANGED <<error, optRequests, optDelays, optAfterShape>>
  \* the changes applied so far belong to the suggestions shown
  /\ accApplied' = IF optimizedSuggestions' = optimizedSuggestions
                     THEN accApplied ELSE <<>>
  /\ UNCHANGED <<accCalls, accSkipped, accEnd, accStore0, persistResult>>
  /\ UNCHANGED <<eventInput, events, parsedEvent, isLoading, db, userId,
                 isAuthReady, editingEvent, editFormData>>
  /\ UNCHANGED <<cfgVars, authVars, storeVars, initVars, parseVars, delVars,
                 updVars, accVars, clicks, parseObs, matchVars>>

\* The backoff timer of the optimization loop fires
OptimizeWaitDone ==
  /\ pcOpt = "wait"
  /\ isOptimizing' = FALSE
  /\ optRequests < MaxRequests
  /\ optRequests' = optRequests + 1
  /\ pcOpt' = "fetch"
  /\ UNCHANGED <<eventInput, events, parsedEvent, isLoading, error, db, userId,
                 isAuthReady, editingEvent, editFormData, optimizationInput,
                 optimizedSuggestions>>
  /\ UNCHANGED <<retriesOpt, optDelays, optAllTransport, optAfterShape, optEnd>>
  /\ UNCHANGED <<cfgVars, authVars, storeVars, initVars, parseVars, delVars,
                 updVars, accVars, clicks, parseObs, accObs, matchVars>>

\* The user types into the optimization textarea
SetOptimizationInput(text) ==
  /\ optimizationInput # text
  /\ optimizationInput' = text
  /\ UNCHANGED <<eventInput, events, parsedEvent, isLoading, error, db, userId,
                 isAuthReady, editingEvent, editFormData,
                 optimizedSuggestions, isOptimizing>>
  /\ UNCHANGED <<cfgVars, authVars, storeVars, initVars, parseVars, optVars,
                 delVars, updVars, accVars, clicks, parseObs, optObs, accObs,
                 matchVars>>

\* ------------------------------------------------------------ Firestore calls
\* A document-store call of the client: setDoc(doc(col)) is "create" with
\* the id doc() generated, updateDoc(ref, {time}) is "update", deleteDoc is
\* "delete".  res is "pending" until the call settles.
Call(k, o, i, tm, d) ==
  [idx |-> k, op |-> o, id |-> i, time |-> tm, data |-> d, res |-> "pending"]

\* Firestore refuses undefined field values, and updateDoc of a missing
\* document
CallCanSucceed(st, c) ==
  CASE c.op = "create" ->
         /\ c.data.title # Undef /\ c.data.date # NoDate /\ c.data.time # NoTime
    [] c.op = "update" -> c.id \in DOMAIN st
    [] c.op = "delete" -> TRUE

\* An update that replaces the document instead of merging into it
ApplyCallOverwrite(st, c) ==
  CASE c.op = "create" -> (c.id :> c.data) @@ st
    [] c.op = "update" -> [st EXCEPT ![c.id] = [EvNone EXCEPT !.time = c.time]]
    [] c.op = "delete" -> [i \in DOMAIN st \ {c.id} |-> st[i]]

\* The store after the call has been applied
ApplyCall(st, c) ==
  CASE c.op = "create" -> (c.id :> c.data) @@ st
    [] c.op = "update" -> [st EXCEPT ![c.id].time = c.time]
    [] c.op = "delete" -> [i \in DOMAIN st \ {c.id} |-> st[i]]

\* ------------------------------------------------------------ handleDeleteEvent
EventIds(evs) == { evs[k].id : k \in 1..Len(evs) }

\* The click on an event's Delete button, up to await deleteDoc(...)
DeleteStart(eventId) ==
  /\ pcDel = "idle"
  /\ ~isLoading
  /\ eventId \in EventIds(events)
  /\ IF ~db \/ userId = NoUser
       THEN /\ error' = "deleteNotInit"
            /\ UNCHANGED <<isLoading, delVars, clicks>>
       ELSE /\ clicks < opsLimit
            /\ clicks' = clicks + 1
            /\ isLoading' = TRUE
            /\ error' = ""
            /\ pcDel' = "await"
            /\ delId' = eventId
  /\ UNCHANGED <<eventInput, events, parsedEvent, db, userId, isAuthReady,
                 editingEvent, editFormData, optimizationInput,
                 optimizedSuggestions, isOptimizing>>
  /\ UNCHANGED <<cfgVars, authVars, storeVars, initVars, parseVars, optVars,
                 updVars, accVars, parseObs, optObs, accObs, matchVars>>

\* A delete that also removes the event from the in-memory list
DeleteSettlesOptimistic(ok) ==
  /\ pcDel = "await"
  /\ IF ok
       THEN /\ store' = ApplyCall(store, Call(0, "delete", delId, NoTime, EvNone))
            /\ events' = SelectSeq(events, LAMBDA e : e.id # delId)
            /\ snapPending' = TRUE
            /\ accForeign' = TRUE
            /\ persistResult' = "ok"
            /\ UNCHANGED error
       ELSE /\ error' = "deleteFailed"
            /\ persistResult' = "failed"
            /\ UNCHANGED <<store, events, snapPending, accForeign>>
  /\ isLoading' = FALSE
  /\ pcDel' = "idle"
  /\ delId' = ""
  /\ UNCHANGED <<eventInput, parsedEvent, db, userId, isAuthReady,
                 editingEvent, editFormData, optimizationInput,
                 optimizedSuggestions, isOptimizing>>
  /\ UNCHANGED <<accCalls, accSkipped, accEnd, accStore0, accApplied>>
  /\ UNCHANGED <<cfgVars, authVars, nextId, initVars, parseVars, optVars,
                 updVars, accVars, clicks, parseObs, optObs, matchVars>>


\* A delete whose loading flag is reset inside the try block only
DeleteSettlesNoFinally(ok) ==
  /\ pcDel = "await"
  /\ IF ok
       THEN /\ store' = ApplyCall(store, Call(0, "delete", delId, NoTime, EvNone))
            /\ snapPending' = TRUE
            /\ accForeign' = TRUE
            /\ persistResult' = "ok"
            /\ isLoading' = FALSE
            /\ UNCHANGED error
       ELSE /\ error' = "deleteFailed"
            /\ persistResult' = "failed"
            /\ UNCHANGED <<store, snapPending, accForeign, isLoading>>
  /\ pcDel' = "idle"
  /\ delId' = ""
  /\ UNCHANGED <<eventInput, events, parsedEvent, db, userId, isAuthReady,
                 editingEvent, editFormData, optimizationInput,
                 optimizedSuggestions, isOptimizing>>
  /\ UNCHANGED <<accCalls, accSkipped, accEnd, accStore0, accApplied>>
  /\ UNCHANGED <<cfgVars, authVars, nextId, initVars, parseVars, optVars,
                 updVars, accVars, clicks, parseObs, optObs, matchVars>>


\* await deleteDoc(eventDocRef) settles; catch and finally
DeleteSettles(ok) ==
  /\ pcDel = "await"
  /\ IF ok
       THEN /\ store' = ApplyCall(store, Call(0, "delete", delId, NoTime, EvNone))
            /\ snapPending' = TRUE
            /\ accForeign' = TRUE
            /\ persistResult' = "ok"
            /\ UNCHANGED error
       ELSE /\ error' = "deleteFailed"
            /\ persistResult' = "failed"
            /\ UNCHANGED <<store, snapPending, accForeign>>
  /\ isLoading' = FALSE
  /\ pcDel' = "idle"
  /\ delId' = ""
  /\ UNCHANGED <<eventInput, events, parsedEvent, db, userId, isAuthReady,
                 editingEvent, editFormData, optimizationInput,
                 optimizedSuggestions, isOptimizing>>
  /\ UNCHANGED <<accCalls, accSkipped, accEnd, accStore0, accApplied>>
  /\ UNCHANGED <<cfgVars, authVars, nextId, initVars, parseVars, optVars,
                 updVars, accVars, clicks, parseObs, optObs, matchVars>>

\* ------------------------------------------------- edit modal, handleUpdateEvent
\* handleEditEvent: the click on an event's Edit button
EditEvent(k) ==
  /\ ~isLoading
  /\ k \in 1..Len(events)
  /\ editingEvent # Some(events[k])
  /\ editingEvent' = Some(events[k])
  /\ editFormData' = EventData(events[k].title, events[k].date, events[k].time,
                               OrEmpty(events[k].description),
                               OrEmpty(events[k].locationType))
  /\ UNCHANGED <<eventInput, events, parsedEvent, isLoading, error, db, userId,
                 isAuthReady, optimizationInput, optimizedSuggestions,
                 isOptimizing>>
  /\ UNCHANGED <<cfgVars, authVars, storeVars, initVars, parseVars, optVars,
                 delVars, updVars, accVars, clicks, parseObs, optObs, accObs,
                 matchVars>>

\* handleCloseEditModal
CloseEditModalEffect ==
  /\ editingEvent' = None
  /\ editFormData' = EvNone
  /\ error' = ""

\* The click on Cancel in the modal
CloseEditModal ==
  /\ editingEvent # None
  /\ ~isLoading
  /\ CloseEditModalEffect
  /\ UNCHANGED <<eventInput, events, parsedEvent, isLoading, db, userId,
                 isAuthReady, optimizationInput, optimizedSuggestions,
                 isOptimizing>>
  /\ UNCHANGED <<cfgVars, authVars, storeVars, initVars, parseVars, optVars,
                 delVars, updVars, accVars, clicks, parseObs, optObs, accObs,
                 matchVars>>

\* The user changes the time or clears the title in the modal form
FormEdits(f) == {[f EXCEPT !.time = 3], [f EXCEPT !.title = ""]}

SetEditFormData(f) ==
  /\ editingEvent # None
  /\ f \in FormEdits(editFormData)
  /\ f # editFormData
  /\ editFormData' = f
  /\ UNCHANGED <<eventInput, events, parsedEvent, isLoading, error, db, userId,
                 isAuthReady, editingEvent, optimizationInput,
                 optimizedSuggestions, isOptimizing>>
  /\ UNCHANGED <<cfgVars, authVars, storeVars, initVars, parseVars, optVars,
                 delVars, updVars, accVars, clicks, parseObs, optObs, accObs,
                 matchVars>>

\* The modal form is submitted, up to await updateDoc(...)
UpdateStart ==
  /\ pcUpd = "idle"
  /\ editingEvent # None
  /\ ~isLoading
  /\ IF ~db \/ userId = NoUser
       THEN /\ error' = "updateNotInit"
            /\ UNCHANGED <<isLoading, updVars, clicks>>
       ELSE IF \/ ~Truthy(editFormData.title)
               \/ editFormData.date = NoDate
               \/ editFormData.time = NoTime
       THEN /\ error' = "updateRequired"
            /\ UNCHANGED <<isLoading, updVars, clicks>>
       ELSE /\ clicks < opsLimit
            /\ clicks' = clicks + 1
            /\ isLoading' = TRUE
            /\ error' = ""
            /\ pcUpd' = "await"
            /\ updId' = editingEvent[1].id
            /\ updData' = editFormData
  /\ UNCHANGED <<eventInput, events, parsedEvent, db, userId, isAuthReady,
                 editingEvent, editFormData, optimizationInput,
                 optimizedSuggestions, isOptimizing>>
  /\ UNCHANGED <<cfgVars, authVars, storeVars, initVars, parseVars, optVars,
                 delVars, accVars, parseObs, optObs, accObs, matchVars>>

\* An update whose finally closes the modal whatever the outcome
UpdateSettlesClosing(ok) ==
  /\ pcUpd = "await"
  /\ IF ok /\ updId \in DOMAIN store
       THEN /\ store' = [store EXCEPT ![updId] = updData]
            /\ snapPending' = TRUE
            /\ accForeign' = TRUE
            /\ persistResult' = "ok"
            /\ CloseEditModalEffect
       ELSE /\ persistResult' = "failed"
            /\ CloseEditModalEffect
            /\ UNCHANGED <<store, snapPending, accForeign>>
  /\ isLoading' = FALSE
  /\ pcUpd' = "idle"
  /\ updId' = ""
  /\ updData' = EvNone
  /\ UNCHANGED <<eventInput, events, parsedEvent, db, userId, isAuthReady,
                 optimizationInput, optimizedSuggestions, isOptimizing>>
  /\ UNCHANGED <<accCalls, accSkipped, accEnd, accStore0, accApplied>>
  /\ UNCHANGED <<cfgVars, authVars, nextId, initVars, parseVars, optVars,
                 delVars, accVars, clicks, parseObs, optObs, matchVars>>

\* await updateDoc(eventDocRef, {...}) settles; catch and finally
UpdateSettles(ok) ==
  /\ pcUpd = "await"
  /\ IF ok /\ updId \in DOMAIN store
       THEN /\ store' = [store EXCEPT ![updId] = updData]
            /\ snapPending' = TRUE
            /\ accForeign' = TRUE
            /\ persistResult' = "ok"
            /\ CloseEditModalEffect
       ELSE /\ error' = "updateFailed"
            /\ persistResult' = "failed"
            /\ UNCHANGED <<store, snapPending, accForeign, editingEvent,
                           editFormData>>
  /\ isLoading' = FALSE
  /\ pcUpd' = "idle"
  /\ updId' = ""
  /\ updData' = EvNone
  /\ UNCHANGED <<eventInput, events, parsedEvent, db, userId, isAuthReady,
                 optimizationInput, optimizedSuggestions, isOptimizing>>
  /\ UNCHANGED <<accCalls, accSkipped, accEnd, accStore0, accApplied>>
  /\ UNCHANGED <<cfgVars, authVars, nextId, initVars, parseVars, optVars,
                 delVars, accVars, clicks, parseObs, optObs, matchVars>>

\* ------------------------------------------------------ handleAcceptSuggestion
\* A move branch that forgets to ask for newTime
IsMoveAnyTime(c) == c.type = "move" /\ Truthy(c.eventId)

\* The three branches of the loop body
IsAdd(c) == c.type = "add" /\ c.hasDetails
IsMove(c) == c.type = "move" /\ Truthy(c.eventId) /\ c.newTime # NoTime
IsDelete(c) == c.type = "delete" /\ Truthy(c.eventId)
WellFormed(c) == IsAdd(c) \/ IsMove(c) \/ IsDelete(c)

\* The persistence call a well-formed change maps to
CallOf(k, c, newId) ==
  IF IsAdd(c)
    THEN Call(k, "create", newId, NoTime,
              EventData(c.details.title, c.details.date, c.details.time,
                        OrEmpty(c.details.description),
                        OrEmpty(c.details.locationType)))
  ELSE IF IsMove(c) THEN Call(k, "update", c.eventId, c.newTime, EvNone)
  ELSE Call(k, "delete", c.eventId, NoTime, EvNone)

\* The first change at or after position i that is not skipped
RECURSIVE FirstWellFormed(_, _)
FirstWellFormed(chs, i) ==
  IF i > Len(chs) \/ WellFormed(chs[i]) THEN i ELSE FirstWellFormed(chs, i + 1)

\* A loop that fires every remaining call without awaiting (Promise.all)
ToIssueAll(chs, i) ==
  LET rest == {k \in i..Len(chs) : WellFormed(chs[k])}
      RECURSIVE Asc(_, _)
      Asc(k, acc) == IF k > Len(chs) THEN acc
                     ELSE Asc(k + 1, IF k \in rest THEN Append(acc, k) ELSE acc)
  IN Asc(i, <<>>)

\* The changes whose call the loop issues when it runs from position i up to
\* its next await: the for-of loop awaits each call before it goes on
ToIssue(chs, i) ==
  IF FirstWellFormed(chs, i) > Len(chs) THEN <<>>
  ELSE <<FirstWellFormed(chs, i)>>

RECURSIVE CallsFor(_, _, _)
CallsFor(chs, js, idNo) ==
  IF js = <<>> THEN <<>>
  ELSE <<CallOf(Head(js), chs[Head(js)],
                IF IsAdd(chs[Head(js)]) THEN NewIdNames[idNo] ELSE "")>>
       \o CallsFor(chs, Tail(js),
                   IF IsAdd(chs[Head(js)]) THEN idNo + 1 ELSE idNo)

Adds(chs, js) == Cardinality({k \in 1..Len(js) : IsAdd(chs[js[k]])})

\* The loop from position i: skip what is unknown or incomplete, issue the
\* next call and await it, or leave the loop and clear the suggestions.
AcceptLoop(chs, i, calls, skipped) ==
  LET js == ToIssue(chs, i)
      upTo == IF js = <<>> THEN Len(chs) ELSE js[Len(js)]
  IN /\ accSkipped' = skipped \cup {k \in i..upTo : ~WellFormed(chs[k])}
     /\ IF js # <<>>
          THEN /\ nextId + Adds(chs, js) <= MaxNew + 1
               /\ accCalls' = calls \o CallsFor(chs, js, nextId)
               /\ nextId' = nextId + Adds(chs, js)
               /\ accIdx' = js[1]
               /\ pcAcc' = "await"
               /\ accEnd' = "none"
               /\ UNCHANGED <<optimizedSuggestions, optimizationInput>>
          ELSE /\ accCalls' = calls
               /\ accIdx' = 0
               /\ pcAcc' = "idle"
               /\ optimizedSuggestions' = None
               /\ optimizationInput' = ""
               /\ accEnd' = "applied"
               /\ UNCHANGED nextId

\* The click on a suggestion's Accept button, up to the first await
AcceptStart(n) ==
  /\ pcAcc = "idle"
  /\ ~isLoading
  /\ optimizedSuggestions # None
  /\ n \in 1..Len(optimizedSuggestions[1])
  /\ IF ~db \/ userId = NoUser
       THEN /\ error' = "applyNotInit"
            /\ UNCHANGED <<isLoading, optimizationInput, optimizedSuggestions,
                           nextId, accForeign, accVars, accObs, clicks>>
       ELSE /\ clicks < opsLimit
            /\ clicks' = clicks + 1
            /\ error' = ""
            /\ accChanges' = optimizedSuggestions[1][n].changes
            /\ accStore0' = store
            /\ accForeign' = FALSE
            /\ UNCHANGED <<accApplied, persistResult>>
            /\ AcceptLoop(optimizedSuggestions[1][n].changes, 1, <<>>, {})
            /\ isLoading' = (pcAcc' = "await")
  /\ UNCHANGED <<eventInput, events, parsedEvent, db, userId, isAuthReady,
                 editingEvent, editFormData, isOptimizing>>
  /\ UNCHANGED <<cfgVars, authVars, store, snapPending, initVars, parseVars,
                 optVars, delVars, updVars, parseObs, optObs, matchVars>>

Settled(calls, r) ==
  [k \in 1..Len(calls) |->
     IF calls[k].res = "pending" /\ calls[k].idx = accIdx
       THEN [calls[k] EXCEPT !.res = r] ELSE calls[k]]

\* A catch that goes on with the next change after a failed call
AcceptCatchContinue ==
  /\ error' = "applyFailed"
  /\ AcceptLoop(accChanges, accIdx + 1, Settled(accCalls, "failed"), accSkipped)
  /\ isLoading' = IF pcAcc' = "await" THEN isLoading ELSE FALSE
  /\ UNCHANGED <<store, snapPending>>

\* A catch that undoes what the earlier changes did
AcceptCatchRollback ==
  /\ error' = "applyFailed"
  /\ isLoading' = FALSE
  /\ pcAcc' = "idle"
  /\ accIdx' = 0
  /\ accEnd' = "failed"
  /\ accCalls' = Settled(accCalls, "failed")
  /\ store' = accStore0
  /\ snapPending' = TRUE
  /\ UNCHANGED <<nextId, accSkipped, optimizedSuggestions, optimizationInput>>

\* catch (applyError) and finally: the loop is left, nothing is undone
AcceptCatch ==
  /\ error' = "applyFailed"
  /\ isLoading' = FALSE
  /\ pcAcc' = "idle"
  /\ accIdx' = 0
  /\ accEnd' = "failed"
  /\ accCalls' = Settled(accCalls, "failed")
  /\ UNCHANGED <<store, snapPending, nextId, accSkipped, optimizedSuggestions,
                 optimizationInput>>

\* The awaited setDoc / updateDoc / deleteDoc settles
AcceptSettles(ok) ==
  /\ pcAcc = "await"
  /\ IF ok /\ \E k \in 1..Len(accCalls) :
                 /\ accCalls[k].idx = accIdx
                 /\ CallCanSucceed(store, accCalls[k])
       THEN /\ store' = ApplyCall(store,
                  accCalls[CHOOSE k \in 1..Len(accCalls) :
                                     accCalls[k].idx = accIdx])
            /\ snapPending' = TRUE
            /\ AcceptLoop(accChanges, accIdx + 1, Settled(accCalls, "ok"),
                          accSkipped)
            /\ isLoading' = IF pcAcc' = "await" THEN isLoading ELSE FALSE
            /\ accApplied' = Append(accApplied, accIdx)
            /\ persistResult' = "ok"
            /\ UNCHANGED error
       ELSE AcceptCatch /\ persistResult' = "failed" /\ UNCHANGED accApplied
  /\ UNCHANGED <<eventInput, events, parsedEvent, db, userId, isAuthReady,
                 editingEvent, editFormData, isOptimizing>>
  /\ UNCHANGED <<cfgVars, authVars, accForeign, initVars, parseVars, optVars,
                 delVars, updVars, accChanges, accStore0, clicks, parseObs,
                 optObs, matchVars>>

\* handleIgnoreSuggestion: the click on a suggestion's Ignore button
IgnoreSuggestion ==
  /\ ~isLoading
  /\ optimizedSuggestions # None /\ Len(optimizedSuggestions[1]) > 0
  /\ optimizedSuggestions' = None
  /\ optimizationInput' = ""
  /\ UNCHANGED <<eventInput, events, parsedEvent, isLoading, error, db, userId,
                 isAuthReady, editingEvent, editFormData, isOptimizing>>
  /\ UNCHANGED <<cfgVars, authVars, storeVars, initVars, parseVars, optVars,
                 delVars, updVars, accVars, clicks, parseObs, optObs, accObs,
                 matchVars>>

\* ------------------------------------------------------------- subscription
Subscribed == db /\ userId # NoUser /\ isAuthReady /\ ~subFailed

\* The onSnapshot callback: the whole list is replaced by the sorted snapshot
Snapshot ==
  /\ Subscribed /\ snapPending
  /\ events' = FetchedEvents(store)
  /\ snapPending' = FALSE
  /\ UNCHANGED <<eventInput, parsedEvent, isLoading, error, db, userId,
                 isAuthReady, editingEvent, editFormData, optimizationInput,
                 optimizedSuggestions, isOptimizing>>
  /\ SuggestionEffect(mockCurrentLocationType, events')
  /\ DayFilterEffect(events', selectedDate)
  /\ UNCHANGED <<mockCurrentLocationType, selectedDate>>
  /\ UNCHANGED <<cfgVars, authVars, store, nextId, accForeign>>
  /\ UNCHANGED <<initVars, parseVars, optVars, delVars, updVars, accVars,
                 clicks, parseObs, optObs, accObs>>

\* The onSnapshot error callback; Firestore then ends the listener
SnapshotError ==
  /\ Subscribed
  /\ error' = "loadFailed"
  /\ subFailed' = TRUE
  /\ UNCHANGED <<eventInput, events, parsedEvent, isLoading, db, userId,
                 isAuthReady, editingEvent, editFormData, optimizationInput,
                 optimizedSuggestions, isOptimizing>>
  /\ UNCHANGED <<cfgVars, authUser, storeVars>>
  /\ UNCHANGED <<initVars, parseVars, optVars, delVars, updVars, accVars,
                 clicks, parseObs, optObs, accObs, matchVars>>

\* The user types into the event textarea
SetEventInput(text) ==
  /\ eventInput # text
  /\ eventInput' = text
  /\ UNCHANGED <<events, parsedEvent, isLoading, error, db, userId,
                 isAuthReady, editingEvent, editFormData, optimizationInput,
                 optimizedSuggestions, isOptimizing>>
  /\ UNCHANGED <<cfgVars, authVars, storeVars, initVars, parseVars, optVars,
                 delVars, updVars, accVars, clicks, parseObs, optObs, accObs,
                 matchVars>>

InputTexts == {"lunch"}

\* ------------------------------------------------------------ specifications
DocIds == {AllIds[k] : k \in 1..Len(AllIds)}

NextInit ==
  \/ \E t \in BOOLEAN : InitializeFirebase(t)
  \/ AuthStateChanged
  \/ \E ok \in BOOLEAN : SignInSettles(ok)

NextParse ==
  \/ \E o \in FetchOutcomes : \E parsed \in ParsedResponses :
       ParseFetchSettles(o, parsed)
  \/ ParseWaitDone
  \/ \E ok \in BOOLEAN : ParseSaveSettles(ok)

NextOptimize ==
  \/ \E o \in FetchOutcomes : \E r \in SuggestionResponses :
       OptimizeFetchSettles(o, r)
  \/ OptimizeWaitDone

NextDelete ==
  \/ \E id \in DocIds : DeleteStart(id)
  \/ \E ok \in BOOLEAN : DeleteSettles(ok)

NextEdit ==
  \/ \E k \in 1..Len(AllIds) : EditEvent(k)
  \/ CloseEditModal
  \/ \E f \in FormEdits(editFormData) : SetEditFormData(f)
  \/ UpdateStart
  \/ \E ok \in BOOLEAN : UpdateSettles(ok)

NextAccept ==
  \/ \E n \in 1..1 : AcceptStart(n)
  \/ \E ok \in BOOLEAN : AcceptSettles(ok)
  \/ IgnoreSuggestion

NextSubscription ==
  \/ Snapshot
  \/ SnapshotError

\* The whole App: every handler, in any interleaving
Next ==
  \/ NextInit
  \/ \E text \in InputTexts : SetEventInput(text)
  \/ ParseStart
  \/ NextParse
  \/ \E text \in InputTexts : SetOptimizationInput(text)
  \/ OptimizeStart
  \/ NextOptimize
  \/ NextDelete
  \/ NextEdit
  \/ NextAccept
  \/ NextSubscription

Spec == Init /\ [][Next]_vars

\* The two LLM loops, used one after the other: the user starts one of them
\* only while the other is not running.
NextLoops ==
  \/ NextInit
  \/ \E text \in InputTexts : SetEventInput(text)
  \/ pcOpt = "idle" /\ ParseStart
  \/ NextParse
  \/ \E text \in InputTexts : SetOptimizationInput(text)
  \/ pcParse = "idle" /\ OptimizeStart
  \/ NextOptimize
  \/ Snapshot

SpecLoops == InitSequential /\ [][NextLoops]_vars

\* Both credentials configured; the LLM loops and the delete handler run
\* concurrently.
InitConfigured == Init /\ envGeminiKey /\ envFirebase

NextConcurrent ==
  \/ NextInit
  \/ \E text \in InputTexts : SetEventInput(text)
  \/ ParseStart
  \/ NextParse
  \/ \E text \in InputTexts : SetOptimizationInput(text)
  \/ OptimizeStart
  \/ NextOptimize
  \/ NextDelete
  \/ Snapshot

SpecConcurrent == InitConfigured /\ [][NextConcurrent]_vars

\* Without Firebase configuration: parsed events go to the local list only
InitLocal == Init /\ envGeminiKey /\ ~envFirebase

NextLocal ==
  \/ \E initThrows \in BOOLEAN : InitializeFirebase(initThrows)
  \/ \E text \in InputTexts : SetEventInput(text)
  \/ ParseStart
  \/ \E outcome \in FetchOutcomes, parsed \in LocalParsedResponses :
       ParseFetchSettles(outcome, parsed)
  \/ ParseWaitDone

SpecLocal == InitLocal /\ [][NextLocal]_vars

\* The suggestion applier alone: the state after initialization and one
\* successful optimization, then Accept, Ignore, Delete, Edit and snapshots.
InitSuggestedWith(limit) ==
  /\ eventInput = "" /\ parsedEvent = None
  /\ isLoading = FALSE /\ error = ""
  /\ db = TRUE /\ userId = "u1" /\ isAuthReady = TRUE
  /\ editingEvent = None /\ editFormData = EvNone
  /\ optimizationInput = "" /\ isOptimizing = FALSE
  /\ optimizedSuggestions \in
       {Some(<<>>)} \cup {Some(<<Suggestion(l)>>) : l \in AcceptedChangeLists}
  /\ envGeminiKey = TRUE /\ envFirebase = TRUE /\ opsLimit = limit
  /\ authUser = "u1" /\ subFailed = FALSE
  /\ store \in InitStores /\ nextId = 1 /\ snapPending = FALSE
  /\ events = FetchedEvents(store)
  /\ InitHandlersDone
  /\ clicks = 0
  /\ parseRequests = 0 /\ parseDelays = <<>> /\ parseAllTransport = TRUE
  /\ parseAfterShape = FALSE /\ parseEnd = "none"
  /\ parseAfterSave = FALSE
  /\ optRequests = 1 /\ optDelays = <<>> /\ optAllTransport = FALSE
  /\ optAfterShape = FALSE /\ optEnd = "stored"
  /\ accCalls = <<>> /\ accSkipped = {} /\ accEnd = "none"
  /\ accStore0 = EmptyStore /\ accForeign = FALSE
  /\ accApplied = <<>> /\ persistResult = "none"
  /\ InitMatch
  /\ filteredEvents = DayFilter(events, selectedDate, tzOffset)

InitSuggested == InitSuggestedWith(MaxConcurrent)

NextApply ==
  \/ NextAccept
  \/ NextDelete
  \/ NextEdit
  \/ Snapshot

SpecApply == InitSuggested /\ [][NextApply]_vars

\* The proactive-suggestion effect alone: the app at rest with the listener
\* delivered, any two documents in the store, any clock and timezone; the
\* user retypes the location label.
MatcherEvents ==
  { EventData("T", d, t, "", l) :
      d \in 1..MaxDay, t \in 0..(DayLen - 1), l \in {"", "Gym"} }

MatcherStores ==
  UNION { [ids -> MatcherEvents] : ids \in {{}, {"a"}, {"a", "b"}} }

InitMatcher ==
  /\ eventInput = "" /\ parsedEvent = None
  /\ isLoading = FALSE /\ error = ""
  /\ db = TRUE /\ userId = "u1" /\ isAuthReady = TRUE
  /\ editingEvent = None /\ editFormData = EvNone
  /\ optimizationInput = "" /\ isOptimizing = FALSE
  /\ optimizedSuggestions = None
  /\ envGeminiKey = TRUE /\ envFirebase = TRUE /\ opsLimit = MaxOps
  /\ authUser = "u1" /\ subFailed = FALSE
  /\ store \in MatcherStores /\ nextId = 1 /\ snapPending = FALSE
  /\ events = FetchedEvents(store)
  /\ InitHandlersDone
  /\ InitObs
  /\ mockCurrentLocationType = "" /\ proactiveSuggestion = None
  /\ now \in [day : 1..MaxDay, slot : 0..(DayLen - 1)]
  /\ tzOffset \in {-1, 0, 1}
  /\ selectedDate = now.day
  /\ InitGrid
  /\ filteredEvents = DayFilter(events, selectedDate, tzOffset)

NextMatcher ==
  \E label \in LocationLabels : SetMockCurrentLocationType(label)

SpecMatcher == InitMatcher /\ [][NextMatcher]_vars

\* The day filter effect alone: the same states, the user clicks on days
NextDayFilter ==
  \E d \in 1..MaxDay : SelectDate(d)

SpecDayFilter == InitMatcher /\ [][NextDayFilter]_vars

\* One credential missing, the other configured; the user starts an
\* operation only while no other is running.  The steps that need both
\* credentials (the save of a parsed event, the calls of an accepted
\* suggestion) cannot occur.  Without the Firebase configuration the app
\* never reaches the store or the auth service: one value of each stands
\* for all.
InitDegraded ==
  /\ InitSequential
  /\ envGeminiKey # envFirebase
  /\ ~envFirebase => (store = EmptyStore /\ authUser = NoUser)

NextDegraded ==
  \/ \E initThrows \in BOOLEAN : InitializeFirebase(initThrows)
  \/ AuthStateChanged
  \/ \E ok \in BOOLEAN : SignInSettles(ok)
  \/ \E text \in InputTexts : SetEventInput(text)
  \/ pcOpt = "idle" /\ pcDel = "idle" /\ pcUpd = "idle" /\ ParseStart
  \/ \E outcome \in FetchOutcomes, parsed \in ParsedResponses :
       ParseFetchSettles(outcome, parsed)
  \/ ParseWaitDone
  \/ \E text \in InputTexts : SetOptimizationInput(text)
  \/ pcParse = "idle" /\ pcDel = "idle" /\ pcUpd = "idle" /\ OptimizeStart
  \/ NextOptimize
  \/ \E id \in DocIds : pcUpd = "idle" /\ DeleteStart(id)
  \/ \E ok \in BOOLEAN : DeleteSettles(ok)
  \/ \E k \in 1..Len(AllIds) : EditEvent(k)
  \/ CloseEditModal
  \/ \E f \in FormEdits(editFormData) : SetEditFormData(f)
  \/ pcDel = "idle" /\ UpdateStart
  \/ \E ok \in BOOLEAN : UpdateSettles(ok)
  \/ \E n \in 1..1 : AcceptStart(n)
  \/ IgnoreSuggestion
  \/ Snapshot

SpecDegraded == InitDegraded /\ [][NextDegraded]_vars

\* Every user-initiated operation, from the rest state with two documents
\* and one suggestion shown: parse, optimize, delete, update and accept,
\* with the subscription delivering snapshots.  The two LLM loops do not
\* overlap each other; every other pair of operations may.
InitOps ==
  /\ InitSuggestedWith(MaxOps)
  /\ store # EmptyStore
  /\ optimizedSuggestions \in
       { Some(<<Suggestion(<<DeleteOp("a"), MoveOp("b", 3)>>)>>),
         Some(<<Suggestion(<<AddOp(EvC), MoveOp("a", 0), UnknownOp>>)>>) }

NextOps ==
  \/ \E text \in InputTexts : SetEventInput(text)
  \/ pcOpt = "idle" /\ ParseStart
  \/ NextParse
  \/ \E text \in InputTexts : SetOptimizationInput(text)
  \/ pcParse = "idle" /\ OptimizeStart
  \/ NextOptimize
  \/ NextDelete
  \/ EditEvent(1)
  \/ UpdateStart
  \/ \E ok \in BOOLEAN : UpdateSettles(ok)
  \/ \E n \in 1..1 : AcceptStart(n)
  \/ \E ok \in BOOLEAN : AcceptSettles(ok)
  \/ Snapshot

SpecOps == InitOps /\ [][NextOps]_vars

\* The session from the moment anonymous sign-in has resolved: isAuthReady
\* is set, the listener has not yet been notified of the new user (userId is
\* still null), a suggestion is on screen.  Then every handler that touches
\* the store or the list, and the subscription once the user id is known.
InitJustSignedIn ==
  /\ eventInput = "" /\ events = <<>> /\ parsedEvent = None
  /\ isLoading = FALSE /\ error = ""
  /\ db = TRUE /\ userId = NoUser /\ isAuthReady = TRUE
  /\ editingEvent = None /\ editFormData = EvNone
  /\ optimizationInput = "" /\ isOptimizing = FALSE
  /\ optimizedSuggestions \in
       { Some(<<Suggestion(<<DeleteOp("a"), MoveOp("b", 3)>>)>>),
         Some(<<Suggestion(<<AddOp(EvC), MoveOp("a", 0), UnknownOp>>)>>) }
  /\ envGeminiKey = TRUE /\ envFirebase = TRUE /\ opsLimit = MaxOps
  /\ authUser = "u1" /\ subFailed = FALSE
  /\ store \in InitStores /\ nextId = 1 /\ snapPending = TRUE
  /\ pcInit = "notify"
  /\ pcParse = "idle" /\ retries = 0 /\ parseDb = FALSE
  /\ parseEvent = WithId("", EvNone)
  /\ pcOpt = "idle" /\ retriesOpt = 0
  /\ pcDel = "idle" /\ delId = ""
  /\ pcUpd = "idle" /\ updId = "" /\ updData = EvNone
  /\ pcAcc = "idle" /\ accChanges = <<>> /\ accIdx = 0
  /\ clicks = 0
  /\ parseRequests = 0 /\ parseDelays = <<>> /\ parseAllTransport = TRUE
  /\ parseAfterShape = FALSE /\ parseEnd = "none"
  /\ parseAfterSave = FALSE
  /\ optRequests = 1 /\ optDelays = <<>> /\ optAllTransport = FALSE
  /\ optAfterShape = FALSE /\ optEnd = "stored"
  /\ accCalls = <<>> /\ accSkipped = {} /\ accEnd = "none"
  /\ accStore0 = EmptyStore /\ accForeign = FALSE
  /\ accApplied = <<>> /\ persistResult = "none"
  /\ InitMatch
  /\ filteredEvents = <<>>

NextSignedIn ==
  \/ AuthStateChanged
  \/ \E text \in InputTexts : SetEventInput(text)
  \/ ParseStart
  \/ NextParse
  \/ NextDelete
  \/ EditEvent(1)
  \/ UpdateStart
  \/ \E ok \in BOOLEAN : UpdateSettles(ok)
  \/ \E n \in 1..1 : AcceptStart(n)
  \/ \E ok \in BOOLEAN : AcceptSettles(ok)
  \/ Snapshot

SpecSignedIn == InitJustSignedIn /\ [][NextSignedIn]_vars

\* The proactive-suggestion effect while time passes: the states of the
\* matcher in the UTC timezone, the user retypes the label, the clock ticks.
InitClock == InitMatcher /\ tzOffset = 0

NextClock ==
  \/ \E label \in LocationLabels : SetMockCurrentLocationType(label)
  \/ ClockTick

SpecClock == InitClock /\ [][NextClock]_vars

\* CalendarGrid alone: the app at rest with two documents delivered, the
\* user pages through the months and clicks on days.
InitGridAtRest ==
  /\ InitSuggestedWith(MaxOps)
  /\ store # EmptyStore
  /\ optimizedSuggestions = Some(<<>>)

NextGrid ==
  \/ GoToPreviousMonth
  \/ GoToNextMonth
  \/ \E day \in 1..MaxDay : HandleDayClick(day)

SpecGrid == InitGridAtRest /\ [][NextGrid]_vars

\* ------------------------------------------------------------------- claims
\* C1: in handleParseEvent and handleOptimizeSchedule no LLM request is
\* issued after a response-shape error of the same invocation.
C1_NoRequestAfterShapeError == ~parseAfterShape /\ ~optAfterShape

\* C2: an invocation of either retry loop issues at most maxRetries requests.
C2_AtMostMaxRetriesRequests ==
  parseRequests <= maxRetries /\ optRequests <= maxRetries

\* The waits a loop has made when every attempt so far failed in transport
C4_ParseInv ==
  parseAllTransport =>
    /\ pcParse = "fetch" => Len(parseDelays) = parseRequests - 1
    /\ pcParse = "wait" => Len(parseDelays) = parseRequests
    /\ parseEnd = "exhausted" =>
         parseRequests = maxRetries /\ parseDelays = <<baseDelay, 2 * baseDelay>>
    /\ \A k \in 1..Len(parseDelays) :
         parseDelays[k] = IF k = 1 THEN baseDelay ELSE 2 * baseDelay

C4_OptInv ==
  optAllTransport =>
    /\ pcOpt = "fetch" => Len(optDelays) = optRequests - 1
    /\ pcOpt = "wait" => Len(optDelays) = optRequests
    /\ optEnd = "exhausted" =>
         optRequests = maxRetries /\ optDelays = <<baseDelay, 2 * baseDelay>>
    /\ \A k \in 1..Len(optDelays) :
         optDelays[k] = IF k = 1 THEN baseDelay ELSE 2 * baseDelay

\* The step on which the last attempt of an all-failing run fails
C4_ParseLastStep ==
  (parseAllTransport /\ pcParse = "fetch" /\ parseRequests = maxRetries
     /\ parseAllTransport' /\ pcParse' # "fetch")
    => (pcParse' = "idle" /\ parseEnd' = "exhausted" /\ error' = "llmFailed"
          /\ parseDelays' = parseDelays)

C4_OptLastStep ==
  (optAllTransport /\ pcOpt = "fetch" /\ optRequests = maxRetries
     /\ optAllTransport' /\ pcOpt' # "fetch")
    => (pcOpt' = "idle" /\ optEnd' = "exhausted" /\ error' = "optFailed"
          /\ optDelays' = optDelays)

\* C4: when every attempt fails in transport, a retry loop makes exactly
\* maxRetries = 3 requests, waits baseDelay after the first failure and
\* 2 * baseDelay after the second, waits nothing after the third and then
\* sets the terminal error message.
C4_PermanentFailure ==
  /\ [](C4_ParseInv /\ C4_OptInv)
  /\ [][C4_ParseLastStep /\ C4_OptLastStep]_vars

C4_Witness ==
  /\ parseEnd = "exhausted" /\ parseAllTransport /\ parseRequests = 3
  /\ parseDelays = <<1000, 2000>> /\ error = "llmFailed"

\* C5: isLoading is true from the start of handleParseEvent until its loop
\* has ended, and isOptimizing likewise for handleOptimizeSchedule.
C5_TriggerDisabledThroughout ==
  /\ pcParse # "idle" => isLoading
  /\ pcOpt # "idle" => isOptimizing

\* The user-initiated handlers that are awaiting a remote call
InFlight ==
  {h \in {"parse", "optimize", "delete", "update", "accept"} :
     \/ h = "parse" /\ pcParse \in {"fetch", "save"}
     \/ h = "optimize" /\ pcOpt = "fetch"
     \/ h = "delete" /\ pcDel = "await"
     \/ h = "update" /\ pcUpd = "await"
     \/ h = "accept" /\ pcAcc = "await"}

\* C6: at most one user-initiated operation is awaiting a remote call.
C6_OneOperationInFlight == Cardinality(InFlight) <= 1

\* The list of the spec's example: delete "a", then move "b" to a new time
ExampleChanges == <<DeleteOp("a"), MoveOp("b", 3)>>

\* C3 as first stated: applying [delete a, move b] issues the delete call and
\* then the move call, also when the delete call fails.
C3_MoveAttemptedAfterFailedDelete ==
  (accChanges = ExampleChanges /\ accEnd # "none") =>
    /\ Len(accCalls) = 2
    /\ accCalls[1].op = "delete" /\ accCalls[1].id = "a"
    /\ accCalls[2].op = "update" /\ accCalls[2].id = "b"

C3_Inv ==
  (accChanges = ExampleChanges /\ (pcAcc = "await" \/ accEnd # "none")) =>
    /\ Len(accCalls) \in {1, 2}
    /\ accCalls[1].op = "delete" /\ accCalls[1].id = "a"
    /\ Len(accCalls) = 2 =>
         /\ accCalls[1].res = "ok"
         /\ accCalls[2].op = "update" /\ accCalls[2].id = "b"
         /\ accCalls[2].time = 3
    /\ accCalls[1].res = "ok" => Len(accCalls) = 2
    /\ accCalls[1].res = "failed" => (Len(accCalls) = 1 /\ accEnd = "failed")

C3_FailStep ==
  (accChanges = ExampleChanges /\ pcAcc = "await" /\ accEnd' = "failed")
    => (error' = "applyFailed" /\ pcAcc' = "idle")

\* C3 (amended): applying [delete a, move b] issues the delete call first;
\* the move call is issued if and only if the delete call succeeded; a
\* failed delete ends the applier with an error message, the move unissued.
C3_MoveOnlyAfterDeleteSucceeds == []C3_Inv /\ [][C3_FailStep]_vars

C3_Witness ==
  /\ accChanges = ExampleChanges /\ accEnd = "failed"
  /\ Len(accCalls) = 1 /\ accCalls[1].res = "failed"
  /\ error = "applyFailed"

\* The store the applier's successful calls produce from a starting store
RECURSIVE ApplyOk(_, _)
ApplyOk(st, calls) ==
  IF calls = <<>> THEN st
  ELSE ApplyOk(IF Head(calls).res = "ok" THEN ApplyCall(st, Head(calls)) ELSE st,
               Tail(calls))

C7_Inv ==
  (accEnd = "failed" /\ ~accForeign) => store = ApplyOk(accStore0, accCalls)

C7_FailStep ==
  (pcAcc = "await" /\ accEnd' = "failed")
    => (store' = store /\ error' = "applyFailed")

\* C7: when the call for operation k fails, handleAcceptSuggestion undoes
\* nothing: the store holds the effects of the operations before k that
\* succeeded (no other handler having written since), and an error is set.
C7_NoRollback == []C7_Inv /\ [][C7_FailStep]_vars

C7_Witness ==
  /\ accEnd = "failed" /\ ~accForeign /\ error = "applyFailed"
  /\ Len(accCalls) >= 2 /\ accCalls[1].res = "ok"
  /\ store # accStore0

\* What the claim calls an operation to skip
C8_Skippable(c) ==
  \/ c.type = "add" /\ ~c.hasDetails
  \/ c.type = "move" /\ (c.eventId \in {"", Undef} \/ c.newTime = NoTime)
  \/ c.type = "delete" /\ c.eventId \in {"", Undef}
  \/ c.type \notin {"add", "move", "delete"}

C8_Called == { accCalls[k].idx : k \in 1..Len(accCalls) }

\* C8: an add without eventDetails, a move without eventId or newTime, a
\* delete without eventId and an operation of unknown type cause no
\* persistence call, and the loop goes on: every operation up to the one
\* being awaited, or up to the end of the list, or up to the call that
\* failed, has been skipped or called, and the loop never ends at a skip.
C8_SkipAndContinue ==
  (pcAcc = "await" \/ accEnd # "none") =>
    /\ \A k \in 1..Len(accChanges) :
         C8_Skippable(accChanges[k]) => k \notin C8_Called
    /\ accSkipped \cap C8_Called = {}
    /\ pcAcc = "await" => accSkipped \cup C8_Called = 1..accIdx
    /\ accEnd = "applied" =>
         /\ accSkipped \cup C8_Called = 1..Len(accChanges)
         /\ accSkipped = {k \in 1..Len(accChanges) : C8_Skippable(accChanges[k])}
    /\ accEnd = "failed" =>
         /\ accCalls # <<>>
         /\ accSkipped \cup C8_Called = 1..accCalls[Len(accCalls)].idx

C8_Witness ==
  /\ accEnd = "applied" /\ accSkipped # {} /\ accCalls # <<>>
  /\ \E k \in accSkipped : \E j \in C8_Called : k < j

\* C9: the applier issues its calls one at a time in list order, the next
\* only when the one before has settled; add maps to create, move to
\* update(id, {time}), delete to delete(id).
C9_SequentialInOrder ==
  /\ \A k \in 1..Len(accCalls) :
       /\ accCalls[k].res = "pending" => (k = Len(accCalls) /\ pcAcc = "await")
       /\ k > 1 => accCalls[k - 1].idx < accCalls[k].idx
       /\ LET c == accChanges[accCalls[k].idx] IN
            /\ c.type \in {"add", "move", "delete"}
            /\ c.type = "add" =>
                 /\ accCalls[k].op = "create"
                 /\ accCalls[k].data.title = c.details.title
                 /\ accCalls[k].data.date = c.details.date
                 /\ accCalls[k].data.time = c.details.time
            /\ c.type = "move" =>
                 /\ accCalls[k].op = "update" /\ accCalls[k].id = c.eventId
                 /\ accCalls[k].time = c.newTime /\ accCalls[k].data = EvNone
            /\ c.type = "delete" =>
                 /\ accCalls[k].op = "delete" /\ accCalls[k].id = c.eventId

C9_Witness ==
  /\ Len(accCalls) = 2 /\ accCalls[1].res = "ok" /\ accCalls[2].res = "pending"
  /\ accCalls[1].op = "delete" /\ accCalls[2].op = "update"

\* The local timestamp of the clock, on the scale of DateTimeKey
NowKey == now.day * DayLen + now.slot

\* C10: whatever the location label, the event list and the clock, the event
\* the proactive-suggestion effect selects has a date and time strictly
\* after now.
C10_SelectedIsAfterNow ==
  proactiveSuggestion # None => DateTimeKey(proactiveSuggestion[1]) > NowKey

C10_Witness ==
  /\ proactiveSuggestion # None
  /\ proactiveSuggestion[1].date = now.day
  /\ \E k \in 1..Len(events) :
       /\ Lower(events[k].locationType) = Lower(mockCurrentLocationType)
       /\ DateTimeKey(events[k]) <= NowKey

\* The events of the list dated today whose label matches the location
TodayMatching ==
  { k \in 1..Len(events) :
      /\ events[k].date = now.day
      /\ Truthy(events[k].locationType)
      /\ Lower(events[k].locationType) = Lower(mockCurrentLocationType) }

\* C11: an event dated today whose label matches is kept by the matcher if
\* and only if its time is strictly after the clock: when it is later than
\* now something at least as early is suggested, and when it is not it is
\* never the suggestion.
C11_TodayKeptIffLater ==
  Truthy(mockCurrentLocationType) =>
    \A k \in TodayMatching :
      /\ events[k].time > now.slot =>
           /\ proactiveSuggestion # None
           /\ DateTimeKey(proactiveSuggestion[1]) <= DateTimeKey(events[k])
      /\ events[k].time <= now.slot => proactiveSuggestion # Some(events[k])

\* The events whose label matches and whose date and time are after now
FutureMatching ==
  { k \in 1..Len(events) :
      /\ Truthy(events[k].locationType)
      /\ Lower(events[k].locationType) = Lower(mockCurrentLocationType)
      /\ DateTimeKey(events[k]) > NowKey }

\* C12: the matcher returns the event with the smallest date and time among
\* the events whose label matches and that lie strictly after now, and
\* returns none exactly when there is no such event.
C12_EarliestFutureMatch ==
  IF ~Truthy(mockCurrentLocationType) \/ FutureMatching = {}
    THEN proactiveSuggestion = None
    ELSE /\ proactiveSuggestion # None
         /\ \E k \in FutureMatching :
              /\ proactiveSuggestion = Some(events[k])
              /\ \A j \in FutureMatching :
                   DateTimeKey(events[k]) <= DateTimeKey(events[j])

\* Two labels that differ at most in the case of their letters
C13_SameLetters(a, b) ==
  \/ a = b
  \/ {a, b} \subseteq {"gym", "Gym", "GYM"}
  \/ {a, b} \subseteq {"office", "Office", "OFFICE"}

\* C13: the matcher compares locationType and the label without regard to
\* case: an empty label gives no suggestion, a suggested event has a
\* non-empty locationType equal to the label up to case, and an event two
\* or more days ahead whose locationType equals the label up to case makes
\* the matcher suggest something.
C13_CaseInsensitiveLabel ==
  /\ mockCurrentLocationType = "" => proactiveSuggestion = None
  /\ proactiveSuggestion # None =>
       /\ proactiveSuggestion[1].locationType \notin {"", Undef}
       /\ C13_SameLetters(proactiveSuggestion[1].locationType,
                          mockCurrentLocationType)
  /\ mockCurrentLocationType # "" =>
       \A k \in 1..Len(events) :
         ( /\ events[k].locationType \notin {"", Undef}
           /\ C13_SameLetters(events[k].locationType, mockCurrentLocationType)
           /\ events[k].date > now.day + 1 )
         => proactiveSuggestion # None

C13_Witness ==
  /\ mockCurrentLocationType = "GYM"
  /\ proactiveSuggestion # None
  /\ proactiveSuggestion[1].locationType = "Gym"
  /\ \E k \in 1..Len(events) : events[k].locationType = ""

\* C14: filteredEvents holds exactly the events of the list whose date is
\* the selected calendar date, whatever their time.
C14_FilterIsSelectedDate ==
  /\ \A k \in 1..Len(events) :
       (\E j \in 1..Len(filteredEvents) : filteredEvents[j] = events[k])
         <=> events[k].date = selectedDate
  /\ \A j \in 1..Len(filteredEvents) :
       \E k \in 1..Len(events) : events[k] = filteredEvents[j]

\* C15: every event in the store has a non-empty title, date and time,
\* whatever parse-and-save, edit-form updates and accepted suggestions have
\* written.
C15_StoredEventsComplete ==
  \A i \in DOMAIN store :
    /\ store[i].title \notin {"", Undef}
    /\ store[i].date # NoDate
    /\ store[i].time # NoTime

\* C16: the in-memory event list is in ascending order of date and time in
\* every reachable state.
C16_EventsSorted ==
  \A k \in 1..(Len(events) - 1) :
    DateTimeKey(events[k]) <= DateTimeKey(events[k + 1])

C17_MoveStep ==
  \A k \in 1..Len(accCalls) :
    ( /\ accCalls[k].res = "pending" /\ accCalls[k].op = "update"
      /\ Len(accCalls') >= k /\ accCalls'[k].res = "ok" )
    => /\ DOMAIN store' = DOMAIN store
       /\ accCalls[k].id \in DOMAIN store
       /\ \A i \in DOMAIN store :
            IF i = accCalls[k].id
              THEN /\ store'[i].time = accCalls[k].time
                   /\ store'[i].title = store[i].title
                   /\ store'[i].date = store[i].date
                   /\ store'[i].description = store[i].description
                   /\ store'[i].locationType = store[i].locationType
              ELSE store'[i] = store[i]

\* C17: the step in which a move's update call succeeds changes only the
\* time of the target event: its other fields and every other event of the
\* store stay as they were.
C17_MoveChangesOnlyTime == [][C17_MoveStep]_vars

C17_Witness ==
  /\ ~accForeign
  /\ \E k \in 1..Len(accCalls) :
       /\ accCalls[k].op = "update" /\ accCalls[k].res = "ok"
       /\ accCalls[k].id \in DOMAIN store
       /\ store[accCalls[k].id].time = accCalls[k].time
       /\ store[accCalls[k].id].time # accStore0[accCalls[k].id].time
       /\ store[accCalls[k].id].title = accStore0[accCalls[k].id].title

\* C18: no operation of a suggestion is applied to the store twice: among
\* the positions of the change list whose call has succeeded, over all the
\* Accept runs on the suggestions shown, none occurs a second time.
C18_ConsumedOnce ==
  \A j, k \in 1..Len(accApplied) : j # k => accApplied[j] # accApplied[k]

C19_FailStep ==
  /\ (pcDel = "await" /\ pcDel' = "idle" /\ persistResult' = "failed")
       => (error' # "" /\ events' = events)
  /\ (pcUpd = "await" /\ pcUpd' = "idle" /\ persistResult' = "failed")
       => /\ error' # "" /\ events' = events
          /\ editingEvent # None
          /\ editingEvent' = editingEvent
          /\ editFormData' = editFormData
  /\ (pcAcc = "await" /\ pcAcc' = "idle" /\ persistResult' = "failed")
       => (error' # "" /\ events' = events)

\* C19: the step in which the persistence call of handleDeleteEvent,
\* handleUpdateEvent or handleAcceptSuggestion fails sets an error message
\* and leaves the in-memory event list as it was; after a failed update the
\* edit modal is still open with the form data it had.
C19_FailureLeavesLocalState == [][C19_FailStep]_vars

C19_Witness ==
  /\ persistResult = "failed" /\ error = "updateFailed"
  /\ pcUpd = "idle" /\ editingEvent # None
  /\ editFormData # Fields(editingEvent[1])
  /\ events # <<>>

\* C20 as first stated: once initialization is over and before the user
\* has done anything, a missing LLM API key or missing persistence
\* credentials show as an error message.
C20_MissingSecretShownAtStartup ==
  ( /\ pcInit = "done" /\ (~envGeminiKey \/ ~envFirebase)
    /\ clicks = 0 /\ eventInput = "" /\ optimizationInput = "" )
    => error # ""

C20_Inv ==
  \* no handler runs before the mount effect
  /\ pcInit = "start" =>
       (error = "" /\ clicks = 0 /\ pcParse = "idle" /\ pcOpt = "idle")
  \* without the key no request is ever sent and no loop is entered
  /\ ~envGeminiKey =>
       /\ parseRequests = 0 /\ optRequests = 0
       /\ pcParse = "idle" /\ pcOpt = "idle"
  /\ error \in {"geminiMissing", "optKeyMissing"} => ~envGeminiKey

C20_Step ==
  \* missing persistence credentials: reported by the mount effect itself
  /\ (pcInit = "start" /\ pcInit' # "start" /\ ~envFirebase)
       => (error' = "fbConfigMissing" /\ pcInit' = "done" /\ isAuthReady')
  \* missing LLM key: reported by the handler the user starts, which returns
  /\ (error' # error /\ error' \in {"geminiMissing", "optKeyMissing"})
       => /\ pcInit # "start" /\ isAuthReady
          /\ error' = "geminiMissing" => Trim(eventInput) # ""
          /\ error' = "optKeyMissing" => Trim(optimizationInput) # ""
          /\ ~isLoading' /\ ~isOptimizing'
          /\ pcParse' = "idle" /\ pcOpt' = "idle"

\* C20 (amended): missing persistence credentials are reported as an error
\* message by the initialization itself, before any handler has run; a
\* missing LLM API key is reported only when the user starts a parse or an
\* optimization with a non-empty input, by an error message of that
\* handler, which returns without sending a request; neither stops the app.
C20_MissingSecretReported == []C20_Inv /\ [][C20_Step]_vars

C20_Witness ==
  /\ ~envGeminiKey /\ envFirebase /\ pcInit = "done"
  /\ error = "geminiMissing" /\ clicks = 0
  /\ ~isLoading /\ pcParse = "idle"

C21_Inv ==
  \* without the key no request is sent, no loop is entered and no
  \* suggestion is ever shown (so Accept has nothing to apply)
  /\ ~envGeminiKey =>
       /\ parseRequests = 0 /\ optRequests = 0
       /\ pcParse = "idle" /\ pcOpt = "idle" /\ ~isOptimizing
       /\ optimizedSuggestions = None
  \* without the key the delete and edit controls act as with it
  /\ ( /\ ~envGeminiKey /\ db /\ userId # NoUser /\ ~isLoading
       /\ clicks < opsLimit /\ events # <<>> ) =>
       /\ ENABLED (DeleteStart(events[1].id) /\ pcDel' = "await")
       /\ ENABLED EditEvent(1) \/ editingEvent = Some(events[1])
  \* without the persistence credentials there is no db and no save
  /\ ~envFirebase =>
       /\ ~db /\ pcParse # "save" /\ parseEnd # "saved"
       /\ pcDel = "idle" /\ pcUpd = "idle" /\ pcAcc = "idle"
  /\ ( /\ ~envFirebase /\ pcInit = "done" /\ ~isLoading /\ pcParse = "idle"
       /\ Trim(eventInput) # "" /\ clicks < opsLimit ) =>
       ENABLED (ParseStart /\ pcParse' = "fetch")

C21_Step ==
  \* the handler that finds the key missing sets its error and resets its flag
  /\ (~envGeminiKey /\ error' # error /\ error' = "geminiMissing")
       => (~isLoading' /\ parseRequests' = 0)
  /\ (~envGeminiKey /\ error' # error /\ error' = "optKeyMissing")
       => (~isOptimizing' /\ optRequests' = 0)
  \* without the key a delete and an update reach the store
  /\ (~envGeminiKey /\ pcDel = "await" /\ pcDel' = "idle"
        /\ persistResult' = "ok")
       => (delId \notin DOMAIN store' /\ ~isLoading')
  /\ (~envGeminiKey /\ pcUpd = "await" /\ pcUpd' = "idle"
        /\ persistResult' = "ok")
       => (store'[updId] = updData /\ editingEvent' = None /\ ~isLoading')
  \* without the persistence credentials a complete LLM answer is appended
  \* to the local list
  /\ (~envFirebase /\ pcParse = "fetch" /\ pcParse' = "idle"
        /\ parseEnd' # "exhausted")
       => /\ parseRequests >= 1 /\ parseEnd' = "local"
          /\ parsedEvent' # None
          /\ Len(events') = Len(events) + 1
          /\ Fields(events'[Len(events')]) = parsedEvent'[1]
          /\ SubSeq(events', 1, Len(events)) = events
          /\ ~isLoading'

\* C21: a missing credential blocks only the feature that depends on it.
\* With the LLM key missing, the parse and optimize handlers send no request,
\* set an error and reset their loading flag, while delete and edit still
\* reach the store (no suggestion can exist for Accept to apply); with the
\* persistence credentials missing, the parse handler still calls the LLM
\* and appends the parsed event to the local list.
C21_MissingCredentialBlocksOnlyItsFeature == []C21_Inv /\ [][C21_Step]_vars

C21_Witness ==
  /\ ~envGeminiKey /\ envFirebase
  /\ error = "geminiMissing" /\ ~isLoading /\ parseRequests = 0
  /\ persistResult = "ok" /\ "a" \notin DOMAIN store

\* The user-initiated operations that have not ended
C22_Running ==
  {h \in {"parse", "optimize", "delete", "update", "accept"} :
     \/ h = "parse" /\ pcParse # "idle"
     \/ h = "optimize" /\ pcOpt # "idle"
     \/ h = "delete" /\ pcDel # "idle"
     \/ h = "update" /\ pcUpd # "idle"
     \/ h = "accept" /\ pcAcc # "idle"}

C22_Inv == C22_Running = {} => (~isLoading /\ ~isOptimizing)

C22_EndStep ==
  /\ (pcParse # "idle" /\ pcParse' = "idle") => ~isLoading'
  /\ (pcOpt # "idle" /\ pcOpt' = "idle") => ~isOptimizing'
  /\ (pcDel # "idle" /\ pcDel' = "idle") => ~isLoading'
  /\ (pcUpd # "idle" /\ pcUpd' = "idle") => ~isLoading'
  /\ (pcAcc # "idle" /\ pcAcc' = "idle") => ~isLoading'
  \* an operation that ends within the segment that started it
  /\ (clicks' = clicks /\ C22_Running' = C22_Running)
       => (isLoading' => isLoading) /\ (isOptimizing' => isOptimizing)

\* C22: the step in which a user-initiated operation ends, by success or by
\* any failure, leaves the flag of that operation false (isOptimizing for
\* optimize, isLoading for the others), and whenever no operation is running
\* both flags are false: the trigger controls are enabled again.
C22_FlagsResetAtEnd == []C22_Inv /\ [][C22_EndStep]_vars

C22_Witness ==
  /\ C22_Running = {} /\ ~isLoading /\ ~isOptimizing
  /\ accEnd = "failed" /\ error = "applyFailed" /\ clicks > 0

\* C23: while the subscription is active and every change of the store has
\* been delivered (the store has stopped changing and no snapshot is
\* outstanding), the in-memory event list equals the sorted full event set
\* of the store.
C23_ListEqualsStoreOnceDelivered ==
  (Subscribed /\ ~snapPending) => events = FetchedEvents(store)

\* C24: within one invocation of handleParseEvent no LLM request is sent
\* after the persistence write of a valid LLM response has failed.
C24_NoRequestAfterFailedSave == ~parseAfterSave

C25_HandlerStep ==
  \/ pcDel' # pcDel \/ pcUpd' # pcUpd \/ pcAcc' # pcAcc
  \/ accCalls' # accCalls \/ accEnd' # accEnd
  \/ persistResult' # persistResult

C25_Step ==
  /\ C25_HandlerStep => events' = events
  /\ events' # events =>
       \* the subscription callback
       \/ /\ Subscribed /\ snapPending /\ ~snapPending'
          /\ events' = FetchedEvents(store)
       \* the local fallback of a parse that saw no db or no user id
       \/ /\ pcParse = "fetch" /\ ~parseDb /\ parseEnd' = "local"
          /\ Len(events') = Len(events) + 1
          /\ SubSeq(events', 1, Len(events)) = events

C26_AuthReadyAfterInit == pcInit = "done" => isAuthReady

\* C27: the event the last successful handleParseEvent reported as added
\* is in the store (when it was saved) or still in the in-memory event list
\* (when it was added through the local fallback), no delete or edit having
\* been made.
C27_AddedEventIsKept ==
  /\ parseEnd = "saved" =>
       /\ parseEvent.id \in DOMAIN store
       /\ store[parseEvent.id] = Fields(parseEvent)
  /\ parseEnd = "local" =>
       \E k \in 1..Len(events) : events[k] = parseEvent

\* C28: once handleParseEvent has ended with the event saved, none of its
\* error messages is displayed, and once handleOptimizeSchedule has ended
\* with suggestions stored, none of its error messages is.
C28_NoErrorLeftAfterSuccess ==
  /\ parseEnd = "saved" =>
       error \notin {"llmMalformed", "llmBadJson", "llmIncomplete", "llmFailed"}
  /\ optEnd = "stored" =>
       error \notin {"optMalformed", "optBadJson", "optInvalid", "optFailed"}

\* C29: in every reachable state, also after the clock alone has moved, the
\* event the displayed proactiveSuggestion refers to lies strictly after
\* the current time.
C29_DisplayedSuggestionIsInTheFuture ==
  \A k \in 1..Len(proactiveSuggestion) :
    ~(DateTimeKey(proactiveSuggestion[k]) <= NowKey)

\* currentYear * 12 + currentMonth
C30_MonthIndex(y, m) == y * 12 + m

C30_Step ==
  /\ (currentMonth' # currentMonth \/ currentYear' # currentYear) =>
       /\ gridSelectedDate' = gridSelectedDate
       /\ selectedDate' = selectedDate
       /\ filteredEvents' = filteredEvents
       /\ \/ C30_MonthIndex(currentYear', currentMonth')
               = C30_MonthIndex(currentYear, currentMonth) + 1
          \/ C30_MonthIndex(currentYear', currentMonth')
               = C30_MonthIndex(currentYear, currentMonth) - 1
  \* the direction is the button's: December to January is a step forward
  /\ (currentMonth = 11 /\ currentMonth' = 0) => currentYear' = currentYear + 1
  /\ (currentMonth = 0 /\ currentMonth' = 11) => currentYear' = currentYear - 1

====
